---------------------------- MODULE Spec2Model ----------------------------
(***************************************************************************)
(* The tamper-evident audit ledger of the Clinomic backend                 *)
(* (backend/core/audit_immutable.py, class ImmutableAuditLogger) over its  *)
(* two MongoDB collections audit_logs_v2 and audit_checkpoints.            *)
(*                                                                         *)
(* Every "await" on the database is one atomic step of a call, so calls of *)
(* different requests (or of different worker processes) interleave at     *)
(* exactly the points where the code yields.  SHA-256 and HMAC-SHA256 are  *)
(* modelled as collision-free symbolic terms over their input.             *)
(***************************************************************************)
EXTENDS Integers, Sequences, FiniteSets, TLC

(***************************************************************************)
(* Bounds of the model.                                                    *)
(***************************************************************************)
\* Total number of log_event calls started in one behaviour: of Spec
\* (concurrent appends), of SpecVerify (appends with a verification among
\* them) and of SpecTamper (appends one at a time, then tampering).
MaxCalls == 3
MaxVerifyCalls == 2
MaxTamperCalls == 2
\* Of SpecCheckpoint: enough calls for a tenant to pass two interval
\* boundaries.
MaxCheckpointCalls == 4
\* Of SpecSequential: two full intervals and one entry more.
MaxSequentialCalls == 5
\* Of SpecRoundTrip: log_event calls with arguments of every shape, the
\* second of a tenant with its checkpoint build.
MaxRoundTripCalls == 2
\* Of SpecMerkle: the longest list of hashes, and the number of calls of
\* _compute_merkle_root on one list.
MaxLeaves == 5
MaxMerkleCalls == 2
\* Of SpecExport: log_event calls enough for a tenant to hold two
\* checkpoints; also the largest sequence an export is asked for.
MaxExportCalls == 4
\* Of SpecOperations: concurrent log_event calls, the second of a tenant
\* with its checkpoint build.
MaxOperationCalls == 2
\* Of SpecV2: AuditLogger.log calls of backend_v2.
MaxV2Calls == 3
\* Of SpecLegacy: AuditLogger.log_event calls of audit.py.
MaxLegacyCalls == 3
\* Of SpecPrefix: log_event calls, enough for a tenant to hold an entry
\* beyond a prefix of one entry.
MaxPrefixCalls == 2
\* Of SpecRewrittenCheckpoints: log_event calls, enough for a tenant to
\* hold a checkpoint.
MaxRewriteCalls == 2
\* Of SpecCanonical: the largest number of keys of a map given to
\* canonical_json, and the number of log_event calls.
MaxMapKeys == 2
MaxCanonicalCalls == 1

\* CHECKPOINT_INTERVAL is 100 in the code and the fetch margin of
\* _create_checkpoint is 10; both are scaled down so that interval
\* boundaries are reached within MaxCalls appends.
CHECKPOINT_INTERVAL == 2
FETCH_MARGIN == 1

\* export_for_archive reads at most 10000 entries (scaled down so that a
\* tenant of the model can hold more) and at most 1000 checkpoints.
EXPORT_ENTRY_CAP == 3
EXPORT_CHECKPOINT_CAP == 1000

\* The request handlers that run concurrently, one call each at a time.
Callers == {"login", "view"}
Orgs == {"ORG-1", "ORG-2"}

(***************************************************************************)
(* Python values.  An Optional[...] is <<>> (None) or <<v>>; a dict        *)
(* is the sequence of its <<key, value>> items in insertion order.         *)
(***************************************************************************)
None == <<>>
Some(v) == <<v>>
IsNone(o) == o = <<>>

\* The arguments the two request handlers of server.py pass to log_event
\* (the login handler, line 383, and a screening handler), each with the
\* wall-clock reading its calls see.  The clock is not monotonic over
\* calls: a LOGIN (read at 2) may be followed by a VIEW (read at 1) or by
\* another LOGIN (read at 2 again).
EventOf ==
  [c \in Callers |->
     IF c = "login"
     THEN [actor |-> "admin", action |-> "LOGIN", entity |-> "USER",
           entity_id |-> None,
           details |-> Some(<< <<"role", "ADMIN">>, <<"name", "Admin">> >>),
           request_id |-> None, ip_address |-> Some("10.0.0.1"),
           user_agent |-> Some("Mozilla"), now |-> 2]
     ELSE [actor |-> "lab1", action |-> "VIEW", entity |-> "SCREENING",
           entity_id |-> Some("S-1"), details |-> None,
           request_id |-> Some("rq-1"), ip_address |-> None,
           user_agent |-> None, now |-> 1]]

\* The arguments of log_event with its optional arguments (lines 80-84)
\* supplied or omitted in every combination; details may also be supplied
\* as an empty dict.
AllEvents ==
  {[actor |-> "lab1", action |-> "VIEW", entity |-> "SCREENING",
    entity_id |-> entity_id, details |-> details, request_id |-> request_id,
    ip_address |-> ip_address, user_agent |-> user_agent, now |-> 1] :
     entity_id \in {None, Some("S-1")},
     details \in {None, Some(<<>>), Some(<< <<"role", "ADMIN">> >>)},
     request_id \in {None, Some("rq-1")},
     ip_address \in {None, Some("10.0.0.1")},
     user_agent \in {None, Some("Mozilla")}}

(***************************************************************************)
(* canonical_json: json.dumps(sort_keys=True, separators=(",", ":")).      *)
(* A JSON text is modelled by its syntax tree: a tagged scalar, or "obj"   *)
(* with the members in sorted key order.                                   *)
(***************************************************************************)
JStr(s) == <<"str", s>>
JInt(n) == <<"int", n>>
JNull == <<"null">>
JOpt(o) == IF IsNone(o) THEN JNull ELSE JStr(o[1])

\* The keys that occur, in the order Python compares strings.
KeyOrder ==
  << "action", "actor", "actor_id", "details", "entity", "entityId",
     "entity_id", "entryCount", "fromSequence", "id", "ipAddress",
     "merkleRoot", "name", "orgId", "org_id", "prevHash", "prev_hash",
     "requestId", "role", "sequence", "timestamp", "toSequence",
     "upToSequence", "userAgent" >>

KeyRanks ==
  [k \in {KeyOrder[i] : i \in 1..Len(KeyOrder)} |->
     CHOOSE i \in 1..Len(KeyOrder) : KeyOrder[i] = k]

KeyRank(k) == KeyRanks[k]

\* The item is put after the items already there.
KeepInsertionOrder(item, sorted) == sorted \o <<item>>

RECURSIVE InsertSorted(_, _)
InsertSorted(item, sorted) ==
  IF sorted = <<>> THEN <<item>>
  ELSE IF KeyRank(item[1]) < KeyRank(Head(sorted)[1])
       THEN <<item>> \o sorted
       ELSE <<Head(sorted)>> \o InsertSorted(item, Tail(sorted))

RECURSIVE SortItems(_)
SortItems(items) ==
  IF items = <<>> THEN <<>>
  ELSE InsertSorted(Head(items), SortItems(Tail(items)))

canonical_json(items) == <<"obj", SortItems(items)>>

\* A details dict of string values, as canonical_json serialises it.
JDict(d) == canonical_json([i \in 1..Len(d) |-> <<d[i][1], JStr(d[i][2])>>])

\* The dicts canonical_json is called on: at most MaxMapKeys of the keys
\* TopKeys, inserted in any order; a value is None, a str (<<s>>) or a
\* nested dict of str values (<<"dict", d>>), itself in any insertion order.
TopKeys == {"actor", "entity"}
NestedDicts ==
  { << <<"name", "a">>, <<"role", "b">> >>,
    << <<"role", "b">>, <<"name", "a">> >>,
    << <<"name", "a">> >>,
    << <<"name", "b">>, <<"role", "b">> >> }
PyValues == {None, <<"a">>, <<"b">>} \cup {<<"dict", d>> : d \in NestedDicts}
PyMaps ==
  UNION {{m \in [1..n -> TopKeys \X PyValues] :
            \A i, j \in 1..n : m[i][1] = m[j][1] => i = j} :
         n \in 0..MaxMapKeys}

\* What json.dumps writes for a value, and the items of a dict with their
\* values so written.
JValue(v) ==
  IF IsNone(v) THEN JNull
  ELSE IF Len(v) = 1 THEN JStr(v[1]) ELSE JDict(v[2])
DumpItems(m) == [i \in 1..Len(m) |-> <<m[i][1], JValue(m[i][2])>>]

(***************************************************************************)
(* Digests.  "+" on str is the pair of its operands.                       *)
(***************************************************************************)
ZeroHash == <<"0000000000000000000000000000000000000000000000000000000000000000">>
Concat(a, b) == <<a, b>>
_compute_hash(data) == <<"sha256", data>>
HmacSha256(key, data) == <<"hmac", key, data>>

(***************************************************************************)
(* State.                                                                  *)
(***************************************************************************)
VARIABLES
  audit_logs,     \* collection audit_logs_v2: the set of stored documents
  checkpoints,    \* collection audit_checkpoints
  signing_key,    \* self._signing_key: None or the cached key
  uuids,          \* number of uuid4() values drawn so far
  pc,             \* position of each caller's log_event call
  loc,            \* the locals of each caller's log_event call
  started,        \* number of log_event calls started
  ver,            \* the verify_chain call: its position, locals and result
  ve,             \* the verify_entry call made on its own: its result
  tamper,         \* what was done to the stored documents behind the logger
  _secrets,       \* SecretsManager._secrets["AUDIT_SIGNING_KEY"].value
  key_lookups,    \* number of get_secret calls that returned a key to the logger
  export,         \* the export_for_archive call: its position, locals and result
  summary,        \* the get_audit_summary call: its position, locals and result
  merkle,         \* a list of hashes and the roots _compute_merkle_root gave for it
  AuditLog,       \* backend_v2: the rows of table AuditLog that are committed
  sessions,       \* backend_v2: the AuditLogger.log call of each database session
  db_audit_logs,  \* audit.py: collection audit_logs
  log_calls,      \* audit.py: the AuditLogger.log_event call of each handler
  chain_report,   \* audit.py: what AuditLogger.verify_chain returned
  wall_clock,     \* the last reading of datetime.now() by these two loggers
  json_call,      \* a canonical_json call made on its own: its argument and result
  previous        \* what the verification calls returned before storage was rewritten

\* The state outside the operations of ImmutableAuditLogger: the two other
\* audit loggers of the repository, the canonical_json call and the
\* results kept of earlier verification calls.
others ==
  <<AuditLog, sessions, db_audit_logs, log_calls, chain_report, wall_clock,
    json_call, previous>>

vars == <<audit_logs, checkpoints, signing_key, uuids, pc, loc, started,
          ver, ve, tamper, _secrets, key_lookups, export, summary, merkle,
          AuditLog, sessions, db_audit_logs, log_calls, chain_report,
          wall_clock, json_call, previous>>

\* What the secret provider holds for AUDIT_SIGNING_KEY, at first and after
\* rotate_secret.
AuditSigningKey == "audit-signing-key"
RotatedSigningKey == "audit-signing-key-2"

NoLocals ==
  [org |-> "", ev |-> None, now |-> 0, sequence |-> 0, doc |-> None,
   from_sequence |-> 0, cp |-> None, ret |-> None, err |-> "", stage |-> ""]

InFlight == {"read_last", "insert", "cp_read_last", "cp_fetch", "cp_insert"}

NoVerify ==
  [pc |-> "idle", org |-> "", limit |-> 0, entries |-> <<>>, i |-> 0,
   expected_prev_hash |-> ZeroHash, issues |-> <<>>, result |-> None,
   after |-> None]

\* The logger after construction over empty collections; nothing called yet.
InitLogger ==
  /\ ver = NoVerify
  /\ ve = None
  /\ tamper = None
  /\ audit_logs = {}
  /\ checkpoints = {}
  /\ signing_key = None
  /\ _secrets = AuditSigningKey
  /\ key_lookups = 0
  /\ uuids = 0
  /\ pc = [c \in Callers |-> "idle"]
  /\ loc = [c \in Callers |-> NoLocals]
  /\ started = 0
  /\ export = None
  /\ summary = None

\* The database sessions of backend_v2 that call AuditLogger.log.
Sessions == {"s1", "s2"}

NoSession == [pc |-> "idle", org_id |-> "", prev_hash |-> ZeroHash, timestamp |-> 0]
NoLogCall == [pc |-> "idle", org |-> "", now |-> 0, prev_hash |-> ZeroHash]

\* The other two loggers over empty tables, nothing called yet.
InitOtherLoggers ==
  /\ AuditLog = {}
  /\ sessions = [s \in Sessions |-> NoSession]
  /\ db_audit_logs = {}
  /\ log_calls = [c \in Callers |-> NoLogCall]
  /\ chain_report = None
  /\ wall_clock = 0
  /\ json_call = None
  /\ previous = None

Init == InitLogger /\ merkle = None /\ InitOtherLoggers

\* Lines 44-48: the key _get_signing_key returns, and whether it had to ask
\* get_secret for it.
FetchEveryTime == [key |-> _secrets, fetched |-> TRUE]
_get_signing_key ==
  [key |-> IF IsNone(signing_key) THEN _secrets ELSE signing_key[1],
   fetched |-> IsNone(signing_key)]

\* key_lookups after a call of _get_signing_key that returned.
LookedUp == key_lookups + (IF _get_signing_key.fetched THEN 1 ELSE 0)

\* SecretsManager.rotate_secret("AUDIT_SIGNING_KEY", new_value), by whoever
\* administers the secrets.
RotateSecret ==
  /\ _secrets = AuditSigningKey
  /\ _secrets' = RotatedSigningKey
  /\ UNCHANGED <<audit_logs, checkpoints, signing_key, uuids, pc, loc,
                 started, ver, ve, tamper, key_lookups, export, summary,
                 merkle, others>>

(***************************************************************************)
(* Queries on the collections.                                             *)
(***************************************************************************)
OrgEntries(org) == {d \in audit_logs : d.orgId = org}

\* find_one({"orgId": org_id}, sort=[("sequence", -1)])
get_last_entry(org) ==
  IF OrgEntries(org) = {} THEN None
  ELSE Some(CHOOSE d \in OrgEntries(org) :
              \A e \in OrgEntries(org) : e.sequence <= d.sequence)

\* get_next_sequence, given the last entry it read.
NextSequenceSkips(last) == IF IsNone(last) THEN 1 ELSE last[1].sequence + 2
NextSequence(last) == IF IsNone(last) THEN 1 ELSE last[1].sequence + 1

\* The unique index on (orgId, sequence) of audit_logs_v2.
NoUniqueIndex(doc) == FALSE
SequenceTakenAnywhere(doc) == \E d \in audit_logs : d.sequence = doc.sequence
DuplicateKey(doc) ==
  \E d \in audit_logs : d.orgId = doc.orgId /\ d.sequence = doc.sequence

(***************************************************************************)
(* The hashed content of an entry, as log_event builds it and as           *)
(* verify_entry rebuilds it from a stored document.                        *)
(***************************************************************************)
EntryData(e) ==
  << <<"id", JStr(e.id)>>,
     <<"orgId", JStr(e.orgId)>>,
     <<"sequence", JInt(e.sequence)>>,
     <<"timestamp", JStr(e.timestamp)>>,
     <<"actor", JStr(e.actor)>>,
     <<"action", JStr(e.action)>>,
     <<"entity", JStr(e.entity)>>,
     <<"entityId", JOpt(e.entityId)>>,
     <<"details", JDict(e.details)>>,
     <<"requestId", JOpt(e.requestId)>>,
     <<"ipAddress", JOpt(e.ipAddress)>>,
     <<"userAgent", JOpt(e.userAgent)>>,
     <<"prevHash", e.prevHash>> >>

\* datetime.isoformat()
IsoFormat(t) == <<"iso8601", t>>

\* details or {}
DetailsOrEmpty(details) ==
  IF IsNone(details) \/ details[1] = <<>> THEN <<>> ELSE details[1]

\* Lines 96-125: entry_data, its hash and signature, and the final document.
SealedDoc(org, ev, now, sequence, prev_hash, entry_id, key) ==
  LET entry_data ==
        [id |-> entry_id, orgId |-> org, sequence |-> sequence,
         timestamp |-> IsoFormat(now), actor |-> ev.actor,
         action |-> ev.action, entity |-> ev.entity,
         entityId |-> ev.entity_id,
         details |-> DetailsOrEmpty(ev.details),
         requestId |-> ev.request_id, ipAddress |-> ev.ip_address,
         userAgent |-> ev.user_agent, prevHash |-> prev_hash]
      canonical == canonical_json(EntryData(entry_data))
      entry_hash == _compute_hash(canonical)
      signature == HmacSha256(key, Concat(canonical, entry_hash))
  IN entry_data @@
     [entryHash |-> entry_hash, signature |-> signature, sealed |-> TRUE]

(***************************************************************************)
(* _create_checkpoint and _compute_merkle_root.                            *)
(***************************************************************************)
\* The documents in the order of their wall-clock readings.
RECURSIVE SortByTimestamp(_)
SortByTimestamp(docs) ==
  IF docs = {} THEN <<>>
  ELSE LET first == CHOOSE d \in docs :
                      \A e \in docs : d.timestamp[2] <= e.timestamp[2]
       IN <<first>> \o SortByTimestamp(docs \ {first})

\* sort("sequence", 1)
RECURSIVE SortBySequence(_)
SortBySequence(docs) ==
  IF docs = {} THEN <<>>
  ELSE LET first == CHOOSE d \in docs :
                      \A e \in docs : d.sequence <= e.sequence
       IN <<first>> \o SortBySequence(docs \ {first})

\* cursor.to_list(length=n) / cursor.limit(n)
Take(seq, n) == IF Len(seq) <= n THEN seq ELSE SubSeq(seq, 1, n)

RECURSIVE PairUp(_)
PairUp(hashes) ==
  IF hashes = <<>> THEN <<>>
  ELSE <<_compute_hash(Concat(hashes[1], hashes[2]))>>
         \o PairUp(SubSeq(hashes, 3, Len(hashes)))

\* An odd level of more than one hash hands its last hash up unpaired.
RECURSIVE MerkleRootCarryOdd(_)
MerkleRootCarryOdd(hashes) ==
  IF hashes = <<>> THEN ZeroHash
  ELSE IF Len(hashes) = 1 THEN hashes[1]
  ELSE IF Len(hashes) % 2 = 1
       THEN MerkleRootCarryOdd(
              Append(PairUp(SubSeq(hashes, 1, Len(hashes) - 1)),
                     hashes[Len(hashes)]))
       ELSE MerkleRootCarryOdd(PairUp(hashes))

\* An odd level is filled up with the zero hash.
RECURSIVE MerkleRootPadZero(_)
MerkleRootPadZero(hashes) ==
  IF hashes = <<>> THEN ZeroHash
  ELSE IF Len(hashes) = 1 THEN hashes[1]
  ELSE LET padded == IF Len(hashes) % 2 = 1
                     THEN Append(hashes, ZeroHash)
                     ELSE hashes
       IN MerkleRootPadZero(PairUp(padded))

RECURSIVE _compute_merkle_root(_)
_compute_merkle_root(hashes) ==
  IF hashes = <<>> THEN ZeroHash
  ELSE IF Len(hashes) = 1 THEN hashes[1]
  ELSE LET padded == IF Len(hashes) % 2 = 1
                     THEN Append(hashes, hashes[Len(hashes)])
                     ELSE hashes
       IN _compute_merkle_root(PairUp(padded))

\* Lines 178-179: hashes.append(hashes[-1]) changes the list of the caller.
PadAlways(hashes) ==
  IF hashes = <<>> THEN hashes ELSE Append(hashes, hashes[Len(hashes)])
PaddedInPlace(hashes) ==
  IF Len(hashes) > 1 /\ Len(hashes) % 2 = 1
  THEN Append(hashes, hashes[Len(hashes)])
  ELSE hashes

\* The hashes a list is made of, and the lists _compute_merkle_root is
\* called on.
Leaves == {_compute_hash(<<1>>), _compute_hash(<<2>>), _compute_hash(<<3>>)}
LeafLists == UNION {[1..n -> Leaves] : n \in 0..MaxLeaves}

\* A list with the hashes at i and j exchanged.
Swapped(hashes, i, j) ==
  [k \in 1..Len(hashes) |->
     IF k = i THEN hashes[j] ELSE IF k = j THEN hashes[i] ELSE hashes[k]]

\* _compute_merkle_root is called on the list, which it may lengthen.
ComputeMerkleRoot ==
  /\ ~IsNone(merkle)
  /\ Len(merkle[1].roots) < MaxMerkleCalls
  /\ merkle' = Some([merkle[1] EXCEPT
                      !.roots = Append(@, _compute_merkle_root(merkle[1].hashes)),
                      !.hashes = PaddedInPlace(@)])
  /\ UNCHANGED <<audit_logs, checkpoints, signing_key, uuids, pc, loc, started,
                 ver, ve, tamper, _secrets, key_lookups, export, summary,
                 others>>

\* _compute_merkle_root is called on a new list: the given leaves with two
\* of them exchanged.
ComputeSwappedRoot ==
  /\ ~IsNone(merkle)
  /\ IsNone(merkle[1].swapped)
  /\ \E i, j \in 1..Len(merkle[1].leaves) :
       /\ i < j
       /\ merkle' = Some([merkle[1] EXCEPT !.swapped =
            Some([i |-> i, j |-> j,
                  root |-> _compute_merkle_root(Swapped(merkle[1].leaves, i, j))])])
  /\ UNCHANGED <<audit_logs, checkpoints, signing_key, uuids, pc, loc, started,
                 ver, ve, tamper, _secrets, key_lookups, export, summary,
                 others>>

\* find_one({"orgId": org_id}, sort=[("upToSequence", -1)])
LastCheckpoint(org) ==
  LET own == {k \in checkpoints : k.orgId = org}
  IN IF own = {} THEN None
     ELSE Some(CHOOSE k \in own : \A j \in own : j.upToSequence <= k.upToSequence)

\* Lines 142-145: the entries of the range, ascending, at most
\* CHECKPOINT_INTERVAL + 10 of them.
CheckpointEntries(org, from_sequence, up_to_sequence) ==
  Take(SortBySequence({d \in OrgEntries(org) :
                        d.sequence >= from_sequence /\ d.sequence <= up_to_sequence}),
       CHECKPOINT_INTERVAL + FETCH_MARGIN)

CheckpointData(k) ==
  << <<"id", JStr(k.id)>>,
     <<"orgId", JStr(k.orgId)>>,
     <<"fromSequence", JInt(k.fromSequence)>>,
     <<"upToSequence", JInt(k.upToSequence)>>,
     <<"entryCount", JInt(k.entryCount)>>,
     <<"merkleRoot", k.merkleRoot>>,
     <<"timestamp", JStr(k.timestamp)>> >>

\* Lines 148-165: the signed checkpoint over the fetched entries.
SignedCheckpoint(org, from_sequence, up_to_sequence, entries, checkpoint_id, now, key) ==
  LET hashes == [i \in 1..Len(entries) |-> entries[i].entryHash]
      checkpoint_data ==
        [id |-> checkpoint_id, orgId |-> org, fromSequence |-> from_sequence,
         upToSequence |-> up_to_sequence, entryCount |-> Len(entries),
         merkleRoot |-> _compute_merkle_root(hashes),
         timestamp |-> IsoFormat(now)]
  IN checkpoint_data @@
     [signature |-> HmacSha256(key, canonical_json(CheckpointData(checkpoint_data)))]

(***************************************************************************)
(* log_event.                                                              *)
(***************************************************************************)
\* The error is caught and dropped and the call returns as if it had
\* written its entry.
SwallowFail(c, error, stage) ==
  /\ pc' = [pc EXCEPT ![c] = "returned"]
  /\ loc' = [loc EXCEPT ![c] = [NoLocals EXCEPT !.ret = Some(uuids)]]

\* log_event catches nothing: an exception of a read, of the key lookup or
\* of an insert leaves it; the call's frame is gone, its caller holds the
\* error.
Fail(c, error, stage) ==
  /\ pc' = [pc EXCEPT ![c] = "failed"]
  /\ loc' = [loc EXCEPT ![c] = [NoLocals EXCEPT !.err = error, !.stage = stage]]

\* log_event returns entry_id (the document it inserted is kept for
\* reference to what was written).
Return(c, doc) ==
  /\ pc' = [pc EXCEPT ![c] = "returned"]
  /\ loc' = [loc EXCEPT ![c] = [NoLocals EXCEPT !.ret = Some(doc.id), !.doc = Some(doc)]]

\* Lines 74-88: log_event is called with the arguments ev, the clock is
\* read and get_next_sequence reads the last entry.
LogEventStart(c, ev) ==
  /\ pc[c] \notin InFlight
  /\ started' = started + 1
  /\ \E org \in Orgs, readOk \in BOOLEAN :
       IF readOk
       THEN /\ pc' = [pc EXCEPT ![c] = "read_last"]
            /\ loc' = [loc EXCEPT ![c] =
                 [NoLocals EXCEPT !.org = org, !.ev = Some(ev),
                    !.now = ev.now,
                    !.sequence = NextSequence(get_last_entry(org))]]
       ELSE Fail(c, "StorageError", "read")
  /\ UNCHANGED <<audit_logs, checkpoints, signing_key, uuids, ver, ve, tamper,
                 _secrets, key_lookups, export, summary, merkle,
                 others>>

\* The call of a request handler, with that handler's arguments.
LogEventGetNextSequence(c) == LogEventStart(c, EventOf[c])

\* Lines 91-125: get_last_entry is read a second time for prevHash, the
\* entry is built, hashed and signed; _get_signing_key asks the secret
\* provider only while no key is cached.
LogEventBuildEntry(c) ==
  /\ pc[c] = "read_last"
  /\ \E readOk \in BOOLEAN, secretOk \in BOOLEAN :
       IF ~readOk
       THEN /\ Fail(c, "StorageError", "read")
            /\ UNCHANGED <<signing_key, key_lookups, uuids>>
       ELSE LET last_entry == get_last_entry(loc[c].org)
                prev_hash == IF IsNone(last_entry) THEN ZeroHash
                             ELSE last_entry[1].entryHash
                entry_id == uuids + 1
            IN /\ uuids' = uuids + 1
               /\ IF _get_signing_key.fetched /\ ~secretOk
                  THEN /\ Fail(c, "SecretsValidationError", "key")
                       /\ UNCHANGED <<signing_key, key_lookups>>
                  ELSE LET key == _get_signing_key.key
                       IN /\ signing_key' = Some(key)
                          /\ key_lookups' = LookedUp
                          /\ pc' = [pc EXCEPT ![c] = "insert"]
                          /\ loc' = [loc EXCEPT ![c].doc =
                               Some(SealedDoc(loc[c].org, loc[c].ev[1],
                                              loc[c].now, loc[c].sequence,
                                              prev_hash, entry_id, key))]
  /\ UNCHANGED <<audit_logs, checkpoints, started, ver, ve, tamper,
                 _secrets, export, summary, merkle, others>>

\* Line 130: the condition of the checkpoint build.
CheckpointNever(sequence) == FALSE
CheckpointNeeded(sequence) == sequence % CHECKPOINT_INTERVAL = 0

\* insert_one on audit_logs_v2.
DropsDocument(doc) == audit_logs
ReplacesTenantEntries(doc) ==
  {d \in audit_logs : d.orgId # doc.orgId} \cup {doc}
InsertedLogs(doc) == audit_logs \cup {doc}

\* Lines 127-133: the insert, then either the checkpoint build or return.
LogEventInsert(c) ==
  /\ pc[c] = "insert"
  /\ LET doc == loc[c].doc[1] IN
     \E writeOk \in BOOLEAN :
       IF ~writeOk
       THEN /\ Fail(c, "StorageError", "insert")
            /\ UNCHANGED audit_logs
       ELSE IF DuplicateKey(doc)
       THEN /\ Fail(c, "DuplicateKeyError", "insert")
            /\ UNCHANGED audit_logs
       ELSE /\ audit_logs' = InsertedLogs(doc)
            /\ IF CheckpointNeeded(loc[c].sequence)
               THEN /\ pc' = [pc EXCEPT ![c] = "cp_read_last"]
                    /\ UNCHANGED loc
               ELSE Return(c, doc)
  /\ UNCHANGED <<checkpoints, signing_key, uuids, started, ver, ve, tamper,
                 _secrets, key_lookups, export, summary, merkle,
                 others>>

\* Line 139: where the range of the new checkpoint starts.
FromSequenceOne(last_checkpoint) == 1
FromSequenceZero(last_checkpoint) == 0
FromSequence(last_checkpoint) ==
  IF IsNone(last_checkpoint) THEN 1 ELSE last_checkpoint[1].upToSequence + 1

\* Lines 138-139: the last checkpoint of the tenant is read.
CheckpointReadLast(c) ==
  /\ pc[c] = "cp_read_last"
  /\ \E readOk \in BOOLEAN :
       IF ~readOk
       THEN Fail(c, "StorageError", "checkpoint")
       ELSE /\ pc' = [pc EXCEPT ![c] = "cp_fetch"]
            /\ loc' = [loc EXCEPT ![c].from_sequence =
                 FromSequence(LastCheckpoint(loc[c].org))]
  /\ UNCHANGED <<audit_logs, checkpoints, signing_key, uuids, started, ver, ve,
                 tamper, _secrets, key_lookups, export, summary, merkle,
                 others>>

\* Lines 142-165: the entries of the range are fetched, folded and signed
\* (the signing key is cached by now: this call signed its own entry).
CheckpointFetch(c) ==
  /\ pc[c] = "cp_fetch"
  /\ \E readOk \in BOOLEAN :
       IF ~readOk
       THEN /\ Fail(c, "StorageError", "checkpoint")
            /\ UNCHANGED <<uuids, signing_key, key_lookups>>
       ELSE LET entries == CheckpointEntries(loc[c].org, loc[c].from_sequence,
                                             loc[c].sequence)
            IN /\ uuids' = uuids + 1
               /\ signing_key' = Some(_get_signing_key.key)
               /\ key_lookups' = LookedUp
               /\ pc' = [pc EXCEPT ![c] = "cp_insert"]
               /\ loc' = [loc EXCEPT ![c].cp =
                    Some(SignedCheckpoint(loc[c].org, loc[c].from_sequence,
                                          loc[c].sequence, entries, uuids + 1,
                                          loc[c].now, _get_signing_key.key))]
  /\ UNCHANGED <<audit_logs, checkpoints, started, ver, ve, tamper,
                 _secrets, export, summary, merkle, others>>

\* Lines 167-168 and 133: the checkpoint is inserted and log_event returns.
CheckpointInsert(c) ==
  /\ pc[c] = "cp_insert"
  /\ \E writeOk \in BOOLEAN :
       IF ~writeOk
       THEN /\ Fail(c, "StorageError", "checkpoint")
            /\ UNCHANGED checkpoints
       ELSE /\ checkpoints' = checkpoints \cup {loc[c].cp[1]}
            /\ Return(c, loc[c].doc[1])
  /\ UNCHANGED <<audit_logs, signing_key, uuids, started, ver, ve, tamper,
                 _secrets, key_lookups, export, summary, merkle,
                 others>>

(***************************************************************************)
(* verify_entry and verify_chain.                                          *)
(***************************************************************************)
\* find_one({"id": entry_id}): one of the documents with that id, in no
\* order the query fixes; None when there is none.
FindAnyEntry(entry_id) ==
  IF audit_logs = {} THEN {None} ELSE {Some(d) : d \in audit_logs}
FindById(entry_id) ==
  LET found == {d \in audit_logs : d.id = entry_id}
  IN IF found = {} THEN {None} ELSE {Some(d) : d \in found}

\* _get_signing_key as the verifier reaches it.
RotatedKey == "rotated-key"
CachedOrFetchedKey == _get_signing_key.key

\* A verify_entry that asks for a checkpoint of the tenant that covers the
\* entry and carries this entry count and a signature under the key.
VerifyEntryWithCheckpoint(entry_id, entry, key) ==
  IF IsNone(entry)
  THEN [valid |-> FALSE, error |-> Some("Entry not found"), entry_id |-> None]
  ELSE IF \E k \in checkpoints :
            /\ k.orgId = entry[1].orgId
            /\ k.fromSequence <= entry[1].sequence
            /\ entry[1].sequence <= k.upToSequence
            /\ k.entryCount = k.upToSequence - k.fromSequence + 1
            /\ k.signature[2] = key
       THEN [valid |-> TRUE, error |-> None, entry_id |-> Some(entry_id)]
       ELSE [valid |-> FALSE, error |-> Some("No checkpoint covers the entry"),
             entry_id |-> None]

\* Lines 192-223 of verify_entry, on what find_one returned.
VerifyEntryResult(entry_id, entry, key) ==
  IF IsNone(entry)
  THEN [valid |-> FALSE, error |-> Some("Entry not found"), entry_id |-> None]
  ELSE LET canonical == canonical_json(EntryData(entry[1]))
           expected_hash == _compute_hash(canonical)
           expected_sig == HmacSha256(key, Concat(canonical, expected_hash))
       IN IF entry[1].entryHash # expected_hash
          THEN [valid |-> FALSE,
                error |-> Some("Hash mismatch - content tampered"),
                entry_id |-> None]
          ELSE IF entry[1].signature # expected_sig
          THEN [valid |-> FALSE,
                error |-> Some("Signature mismatch - tampering detected"),
                entry_id |-> None]
          ELSE [valid |-> TRUE, error |-> None, entry_id |-> Some(entry_id)]

\* verify_entry reaches _compute_hmac only when the stored hash matches.
ReachesHmac(entry) ==
  /\ ~IsNone(entry)
  /\ entry[1].entryHash = _compute_hash(canonical_json(EntryData(entry[1])))

KeyAfterVerifyEntry(entry) ==
  IF ReachesHmac(entry) THEN Some(CachedOrFetchedKey) ELSE signing_key

LookupsAfterVerifyEntry(entry) ==
  IF ReachesHmac(entry) THEN LookedUp ELSE key_lookups

\* verify_entry called on its own (GET /admin/audit/v2/entry/{id}/verify).
VerifyEntry ==
  /\ IsNone(ve)
  /\ \E entry_id \in 0..uuids :
       \E entry \in FindById(entry_id) :
         /\ ve' = Some([entry_id |-> entry_id,
                        result |-> VerifyEntryResult(entry_id, entry,
                                                     CachedOrFetchedKey),
                        after |-> tamper])
         /\ signing_key' = KeyAfterVerifyEntry(entry)
         /\ key_lookups' = LookupsAfterVerifyEntry(entry)
  /\ UNCHANGED <<audit_logs, checkpoints, uuids, pc, loc, started, ver, tamper,
                 _secrets, export, summary, merkle, others>>

\* The limit argument: one entry, or more than any ledger of the model.
Limits == {1, MaxCalls + MaxVerifyCalls + MaxTamperCalls}

\* Lines 254-259: the report of verify_chain.
ChainReport(entries, issues) ==
  [valid |-> Len(issues) = 0, totalVerified |-> Len(entries),
   issues |-> issues,
   lastSequence |-> IF entries = <<>> THEN Some(0)
                    ELSE Some(entries[Len(entries)].sequence)]

\* Lines 227-234: the entries are fetched, ascending, at most limit; the
\* call returns at once when there are none.
VerifyChainStarted(org, limit) ==
  LET entries == Take(SortBySequence(OrgEntries(org)), limit)
  IN IF entries = <<>>
     THEN [NoVerify EXCEPT !.pc = "done", !.org = org,
             !.limit = limit, !.after = tamper,
             !.result = Some([valid |-> TRUE, totalVerified |-> 0,
                              issues |-> <<>>,
                              lastSequence |-> None])]
     ELSE [NoVerify EXCEPT !.pc = "loop", !.org = org,
             !.limit = limit, !.after = tamper,
             !.entries = entries, !.i = 1]

\* verify_chain called on its own (GET /admin/audit/v2/verify).
VerifyChainFind ==
  /\ ver.pc = "idle"
  /\ \E org \in Orgs, limit \in Limits :
       ver' = VerifyChainStarted(org, limit)
  /\ UNCHANGED <<audit_logs, checkpoints, signing_key, uuids, pc, loc,
                 started, ve, tamper, _secrets, key_lookups, export, summary,
                 merkle, others>>

\* Lines 238-245: the chain check of one entry.
ChainIssues(entry, expected_prev_hash) ==
  IF entry.prevHash # expected_prev_hash
  THEN << [sequence |-> entry.sequence, type |-> "chain_break",
           message |-> <<"Chain break at sequence ", entry.sequence>>] >>
  ELSE <<>>

\* Lines 248-250: the integrity check of one entry.
IntegrityIssues(entry, result) ==
  IF ~result.valid
  THEN << [sequence |-> entry.sequence, type |-> "integrity_failure",
           message |-> <<result.error[1]>>] >>
  ELSE <<>>

\* Line 252: what the next entry must chain to.
StaleExpectedPrevHash(entry, expected_prev_hash) == expected_prev_hash
RecomputedExpectedPrevHash(entry, expected_prev_hash) ==
  _compute_hash(canonical_json(EntryData(entry)))
NextExpectedPrevHash(entry, expected_prev_hash) == entry.entryHash

\* Lines 236-259: one iteration of the loop, verify_entry reading the entry
\* again by its id; the last iteration returns the report.
VerifyChainStep ==
  /\ ver.pc = "loop"
  /\ LET entry == ver.entries[ver.i] IN
     \E found \in FindById(entry.id) :
       LET result == VerifyEntryResult(entry.id, found, CachedOrFetchedKey)
           issues == ver.issues \o ChainIssues(entry, ver.expected_prev_hash)
                                \o IntegrityIssues(entry, result)
       IN /\ signing_key' = KeyAfterVerifyEntry(found)
          /\ key_lookups' = LookupsAfterVerifyEntry(found)
          /\ ver' = IF ver.i < Len(ver.entries)
                    THEN [ver EXCEPT !.i = ver.i + 1, !.issues = issues,
                            !.expected_prev_hash =
                               NextExpectedPrevHash(entry, ver.expected_prev_hash)]
                    ELSE [ver EXCEPT !.pc = "done", !.i = ver.i + 1,
                            !.issues = issues,
                            !.expected_prev_hash =
                               NextExpectedPrevHash(entry, ver.expected_prev_hash),
                            !.result = Some(ChainReport(ver.entries, issues))]
  /\ UNCHANGED <<audit_logs, checkpoints, uuids, pc, loc, started, ve, tamper,
                 _secrets, export, summary, merkle, others>>

(***************************************************************************)
(* export_for_archive.                                                     *)
(***************************************************************************)
\* Lines 266 and 274: `if to_sequence:` is false for None and for 0.
HasUpperBound(to_sequence) == ~IsNone(to_sequence) /\ to_sequence[1] # 0

\* Lines 265-270: the entries of the query, ascending, at most the cap.
ExportEntries(org, from_sequence, to_sequence) ==
  Take(SortBySequence(
         {d \in OrgEntries(org) :
            /\ d.sequence >= from_sequence
            /\ HasUpperBound(to_sequence) => d.sequence <= to_sequence[1]}),
       EXPORT_ENTRY_CAP)

\* Lines 273-275: the checkpoint query.
ExportCheckpointQuery(org, from_sequence, to_sequence) ==
  {k \in checkpoints :
     /\ k.orgId = org
     /\ k.fromSequence >= from_sequence
     /\ HasUpperBound(to_sequence) => k.upToSequence <= to_sequence[1]}

\* to_list(length=n) of a cursor without a sort: all the documents when
\* there are at most n, otherwise n of them, whichever the server yields.
ToList(docs, n) ==
  IF Cardinality(docs) <= n THEN {docs}
  ELSE {some \in SUBSET docs : Cardinality(some) = n}

\* Line 285: the declared end of the exported range.
ToSequenceIsFrom(entries, from_sequence) == from_sequence
ExportToSequence(entries, from_sequence) ==
  IF entries = <<>> THEN from_sequence ELSE entries[Len(entries)].sequence

\* Lines 292-299: what the export signature is computed over.
ExportBoundary(package) ==
  << <<"orgId", JStr(package.orgId)>>,
     <<"fromSequence", JInt(package.fromSequence)>>,
     <<"toSequence", JInt(package.toSequence)>>,
     <<"entryCount", JInt(package.entryCount)>> >>

\* Lines 281-302: the export package and its signature.  The checkpoints
\* are kept as the set of the documents read: no order is asked for.
ExportPackage(org, from_sequence, entries, cps, now, key) ==
  LET export_data ==
        [orgId |-> org, exportedAt |-> IsoFormat(now),
         fromSequence |-> from_sequence,
         toSequence |-> ExportToSequence(entries, from_sequence),
         entryCount |-> Len(entries), entries |-> entries,
         checkpoints |-> cps]
  IN export_data @@
     [exportSignature |->
        HmacSha256(key, canonical_json(ExportBoundary(export_data)))]

\* The arguments of the export endpoint and the clock readings of a call.
FromSequences == 1..MaxExportCalls
ToSequences == {None} \cup {Some(n) : n \in 0..MaxExportCalls}
Clock == {1, 2}

NoExport ==
  [pc |-> "failed", org |-> "", from_sequence |-> 0, to_sequence |-> None,
   entries |-> <<>>, result |-> None, err |-> ""]

\* Lines 265-270: export_for_archive is called and reads the entries.
ExportCalled(org, from_sequence, to_sequence) ==
  /\ IsNone(export)
  /\ \E readOk \in BOOLEAN :
       export' =
         Some(IF readOk
              THEN [NoExport EXCEPT
                      !.pc = "entries", !.org = org,
                      !.from_sequence = from_sequence,
                      !.to_sequence = to_sequence,
                      !.entries = ExportEntries(org, from_sequence, to_sequence)]
              ELSE [NoExport EXCEPT
                      !.org = org, !.from_sequence = from_sequence,
                      !.to_sequence = to_sequence, !.err = "StorageError"])
  /\ UNCHANGED <<audit_logs, checkpoints, signing_key, uuids, pc, loc,
                 started, ver, ve, tamper, _secrets, key_lookups, summary,
                 merkle, others>>

\* The export endpoint called with any range.
ExportFetchEntries ==
  \E org \in Orgs, from_sequence \in FromSequences,
     to_sequence \in ToSequences :
    ExportCalled(org, from_sequence, to_sequence)

\* Lines 273-302: the checkpoints are read, the package is built and signed
\* and export_for_archive returns it.
ExportFetchCheckpoints ==
  /\ ~IsNone(export)
  /\ export[1].pc = "entries"
  /\ LET x == export[1] IN
     \E readOk \in BOOLEAN, secretOk \in BOOLEAN, now \in Clock :
       IF ~readOk
       THEN /\ export' = Some([x EXCEPT !.pc = "failed", !.entries = <<>>,
                                         !.err = "StorageError"])
            /\ UNCHANGED <<signing_key, key_lookups>>
       ELSE IF _get_signing_key.fetched /\ ~secretOk
       THEN /\ export' = Some([x EXCEPT !.pc = "failed", !.entries = <<>>,
                                         !.err = "SecretsValidationError"])
            /\ UNCHANGED <<signing_key, key_lookups>>
       ELSE \E cps \in ToList(ExportCheckpointQuery(x.org, x.from_sequence,
                                                     x.to_sequence),
                               EXPORT_CHECKPOINT_CAP) :
              /\ signing_key' = Some(_get_signing_key.key)
              /\ key_lookups' = LookedUp
              /\ export' = Some([x EXCEPT
                     !.pc = "done", !.entries = <<>>,
                     !.result = Some(ExportPackage(x.org, x.from_sequence,
                                                   x.entries, cps, now,
                                                   _get_signing_key.key))])
  /\ UNCHANGED <<audit_logs, checkpoints, uuids, pc, loc, started, ver, ve,
                 tamper, _secrets, summary, merkle, others>>

(***************************************************************************)
(* get_audit_summary.                                                      *)
(***************************************************************************)
\* Line 310: verify_chain(org_id, limit=100).
SUMMARY_SAMPLE == 100

NoSummary ==
  [pc |-> "failed", org |-> "", total_entries |-> 0, last_entry |-> None,
   result |-> None]

\* Line 306: get_audit_summary is called and counts the entries.
SummaryCountEntries ==
  /\ IsNone(summary)
  /\ ver.pc = "idle"
  /\ \E org \in Orgs, readOk \in BOOLEAN :
       summary' =
         Some(IF readOk
              THEN [NoSummary EXCEPT
                      !.pc = "counted", !.org = org,
                      !.total_entries = Cardinality(OrgEntries(org))]
              ELSE [NoSummary EXCEPT !.org = org])
  /\ UNCHANGED <<audit_logs, checkpoints, signing_key, uuids, pc, loc,
                 started, ver, ve, tamper, _secrets, key_lookups, export,
                 merkle, others>>

\* Line 307: the last entry is read.
SummaryLastEntry ==
  /\ ~IsNone(summary)
  /\ summary[1].pc = "counted"
  /\ \E readOk \in BOOLEAN :
       summary' =
         Some(IF readOk
              THEN [summary[1] EXCEPT
                      !.pc = "last_read",
                      !.last_entry = get_last_entry(summary[1].org)]
              ELSE [NoSummary EXCEPT !.org = summary[1].org])
  /\ UNCHANGED <<audit_logs, checkpoints, signing_key, uuids, pc, loc,
                 started, ver, ve, tamper, _secrets, key_lookups, export,
                 merkle, others>>

\* Line 310: verify_chain is called on the tenant; its loop runs as
\* VerifyChainStep.
SummaryVerifyChain ==
  /\ ~IsNone(summary)
  /\ summary[1].pc = "last_read"
  /\ ver.pc = "idle"
  /\ ver' = VerifyChainStarted(summary[1].org, SUMMARY_SAMPLE)
  /\ summary' = Some([summary[1] EXCEPT !.pc = "verifying"])
  /\ UNCHANGED <<audit_logs, checkpoints, signing_key, uuids, pc, loc,
                 started, ve, tamper, _secrets, key_lookups, export, merkle,
                 others>>

\* Lines 315-326: the dict get_audit_summary returns.
SummaryResult(org, total_entries, last_entry, verification, checkpoint_count) ==
  [orgId |-> org,
   totalEntries |-> total_entries,
   lastSequence |-> IF IsNone(last_entry) THEN 0 ELSE last_entry[1].sequence,
   lastTimestamp |-> IF IsNone(last_entry) THEN None
                     ELSE Some(last_entry[1].timestamp),
   checkpointCount |-> checkpoint_count,
   chainIntegrity |-> [verified |-> verification.valid,
                       sampledEntries |-> verification.totalVerified,
                       issues |-> Len(verification.issues)]]

\* Lines 313-326: verify_chain has returned; the checkpoints are counted and
\* the summary is returned.
SummaryCountCheckpoints ==
  /\ ~IsNone(summary)
  /\ summary[1].pc = "verifying"
  /\ ver.pc = "done"
  /\ \E readOk \in BOOLEAN :
       summary' =
         Some(IF readOk
              THEN [summary[1] EXCEPT
                      !.pc = "done",
                      !.result = Some(SummaryResult(
                         summary[1].org, summary[1].total_entries,
                         summary[1].last_entry, ver.result[1],
                         Cardinality({k \in checkpoints :
                                        k.orgId = summary[1].org})))]
              ELSE [NoSummary EXCEPT !.org = summary[1].org])
  /\ UNCHANGED <<audit_logs, checkpoints, signing_key, uuids, pc, loc,
                 started, ver, ve, tamper, _secrets, key_lookups, export,
                 merkle, others>>

\* The steps of a get_audit_summary call.
GetAuditSummary ==
  \/ SummaryCountEntries
  \/ SummaryLastEntry
  \/ SummaryVerifyChain
  \/ (~IsNone(summary) /\ summary[1].pc = "verifying" /\ VerifyChainStep)
  \/ SummaryCountCheckpoints

(***************************************************************************)
(* backend_v2: AuditLogger.log (app/modules/audit/utils.py).  Each         *)
(* database session runs one call at a time; a row is seen by the other    *)
(* sessions from its commit on.  datetime.now() is taken to be strictly    *)
(* increasing over its readings, the case most favourable to an order      *)
(* by timestamp.                                                           *)
(***************************************************************************)
\* settings.SECRET_KEY
SECRET_KEY == "secret-key"

\* The arguments the sessions pass to log (those of test_audit_integrity,
\* and a call with details).
V2EventOf ==
  [s \in Sessions |->
     IF s = "s1"
     THEN [actor_id |-> "user1", action |-> "LOGIN", entity |-> "session",
           entity_id |-> "1", details |-> None]
     ELSE [actor_id |-> "user1", action |-> "VIEW", entity |-> "patient",
           entity_id |-> "101",
           details |-> Some(<< <<"role", "ADMIN">> >>)]]

\* Line 40: the committed rows of the organization that
\* order_by(timestamp.desc()).first() may return; None when there is none.
V2LastLog(org_id) ==
  LET own == {r \in AuditLog : r.org_id = org_id}
  IN IF own = {} THEN {None}
     ELSE {Some(r) : r \in {q \in own :
                               \A o \in own : o.timestamp <= q.timestamp}}

\* Lines 46-58: the payload and its signature.
V2Signature(org_id, ev, timestamp, prev_hash) ==
  HmacSha256(SECRET_KEY,
    canonical_json(<< <<"org_id", JStr(org_id)>>,
                      <<"actor_id", JStr(ev.actor_id)>>,
                      <<"action", JStr(ev.action)>>,
                      <<"entity", JStr(ev.entity)>>,
                      <<"entity_id", JStr(ev.entity_id)>>,
                      <<"timestamp", JStr(IsoFormat(timestamp))>>,
                      <<"prev_hash", prev_hash>>,
                      <<"details", JDict(DetailsOrEmpty(ev.details))>> >>))

\* Lines 60-70: the row that is added.
V2LogEntry(org_id, ev, timestamp, prev_hash) ==
  [org_id |-> org_id, actor_id |-> ev.actor_id, action |-> ev.action,
   entity |-> ev.entity, entity_id |-> ev.entity_id,
   timestamp |-> timestamp, prev_hash |-> prev_hash,
   signature |-> V2Signature(org_id, ev, timestamp, prev_hash),
   details |-> IF IsNone(ev.details) \/ ev.details[1] = <<>> THEN None
               ELSE Some(JDict(ev.details[1]))]

\* Lines 40-41: log is called and queries the last log of the organization.
V2QueryLast(s) ==
  /\ sessions[s].pc = "idle"
  /\ \E org_id \in Orgs :
       \E last_log \in V2LastLog(org_id) :
         sessions' = [sessions EXCEPT ![s] =
            [NoSession EXCEPT
               !.pc = "queried", !.org_id = org_id,
               !.prev_hash = IF IsNone(last_log) THEN ZeroHash
                             ELSE last_log[1].signature]]
  /\ UNCHANGED <<audit_logs, checkpoints, signing_key, uuids, pc, loc,
                 started, ver, ve, tamper, _secrets, key_lookups, export,
                 summary, merkle, AuditLog, db_audit_logs, log_calls,
                 chain_report, wall_clock, json_call,
                 previous>>

\* The number of log calls made so far: each reads the clock once, after
\* its query.
V2Started ==
  wall_clock + Cardinality({s \in Sessions : sessions[s].pc = "queried"})

\* Line 43: the clock is read.
V2Timestamp(s) ==
  /\ sessions[s].pc = "queried"
  /\ wall_clock' = wall_clock + 1
  /\ sessions' = [sessions EXCEPT ![s].pc = "stamped",
                                  ![s].timestamp = wall_clock + 1]
  /\ UNCHANGED <<audit_logs, checkpoints, signing_key, uuids, pc, loc,
                 started, ver, ve, tamper, _secrets, key_lookups, export,
                 summary, merkle, AuditLog, db_audit_logs, log_calls,
                 chain_report, json_call,
                 previous>>

\* Lines 45-73: the row is built, signed, added and committed.
V2Commit(s) ==
  /\ sessions[s].pc = "stamped"
  /\ AuditLog' = AuditLog \cup
       {V2LogEntry(sessions[s].org_id, V2EventOf[s], sessions[s].timestamp,
                   sessions[s].prev_hash)}
  /\ sessions' = [sessions EXCEPT ![s] = NoSession]
  /\ UNCHANGED <<audit_logs, checkpoints, signing_key, uuids, pc, loc,
                 started, ver, ve, tamper, _secrets, key_lookups, export,
                 summary, merkle, db_audit_logs, log_calls, chain_report,
                 wall_clock, json_call,
                 previous>>

(***************************************************************************)
(* backend/core/audit.py: AuditLogger.log_event and verify_chain, called   *)
(* by the request handlers.  The clock is strictly increasing over its     *)
(* readings, and _id grows with every insert.                              *)
(***************************************************************************)
\* The documents of the tenant in the order of (timestamp, _id).
LegacyBefore(d, e) ==
  \/ d.timestamp[2] < e.timestamp[2]
  \/ d.timestamp[2] = e.timestamp[2] /\ d._id < e._id

RECURSIVE SortByTimestampId(_)
SortByTimestampId(docs) ==
  IF docs = {} THEN <<>>
  ELSE LET first == CHOOSE d \in docs :
                      \A e \in docs \ {d} : LegacyBefore(d, e)
       IN <<first>> \o SortByTimestampId(docs \ {first})

\* Lines 20-23: get_last_hash.
get_last_hash(org) ==
  LET logs == SortByTimestampId({d \in db_audit_logs : d.orgId = org})
  IN IF logs = <<>> THEN ZeroHash ELSE logs[Len(logs)].eventHash

\* Lines 39-48 and 70: the content of an event that is hashed.
LegacyEventData(d) ==
  << <<"actor", JStr(d.actor)>>,
     <<"orgId", JStr(d.orgId)>>,
     <<"action", JStr(d.action)>>,
     <<"entity", JStr(d.entity)>>,
     <<"details", JDict(d.details)>>,
     <<"timestamp", JStr(d.timestamp)>>,
     <<"requestId", JOpt(d.requestId)>>,
     <<"prevHash", d.prevHash>> >>

\* Lines 39-55: the document log_event inserts.
LegacyDoc(org, ev, now, prev_hash, id) ==
  LET event_data ==
        [actor |-> ev.actor, orgId |-> org, action |-> ev.action,
         entity |-> ev.entity, details |-> DetailsOrEmpty(ev.details),
         timestamp |-> IsoFormat(now), requestId |-> ev.request_id,
         prevHash |-> prev_hash]
  IN event_data @@
     [eventHash |-> _compute_hash(canonical_json(LegacyEventData(event_data))),
      _id |-> id]

\* Line 35: log_event is called and reads the clock.
LegacyLogEvent(c) ==
  /\ log_calls[c].pc = "idle"
  /\ wall_clock' = wall_clock + 1
  /\ \E org \in Orgs :
       log_calls' = [log_calls EXCEPT ![c] =
          [NoLogCall EXCEPT !.pc = "called", !.org = org,
                            !.now = wall_clock + 1]]
  /\ UNCHANGED <<audit_logs, checkpoints, signing_key, uuids, pc, loc,
                 started, ver, ve, tamper, _secrets, key_lookups, export,
                 summary, merkle, AuditLog, sessions, db_audit_logs,
                 chain_report, json_call,
                 previous>>

\* Line 36: the hash of the last event is read.
LegacyGetLastHash(c) ==
  /\ log_calls[c].pc = "called"
  /\ log_calls' = [log_calls EXCEPT
                     ![c].pc = "hashed",
                     ![c].prev_hash = get_last_hash(log_calls[c].org)]
  /\ UNCHANGED <<audit_logs, checkpoints, signing_key, uuids, pc, loc,
                 started, ver, ve, tamper, _secrets, key_lookups, export,
                 summary, merkle, AuditLog, sessions, db_audit_logs,
                 chain_report, wall_clock, json_call,
                 previous>>

\* Lines 39-58: the event is hashed and inserted; log_event returns.
LegacyInsert(c) ==
  /\ log_calls[c].pc = "hashed"
  /\ db_audit_logs' = db_audit_logs \cup
       {LegacyDoc(log_calls[c].org, EventOf[c], log_calls[c].now,
                  log_calls[c].prev_hash, Cardinality(db_audit_logs) + 1)}
  /\ log_calls' = [log_calls EXCEPT ![c] = NoLogCall]
  /\ UNCHANGED <<audit_logs, checkpoints, signing_key, uuids, pc, loc,
                 started, ver, ve, tamper, _secrets, key_lookups, export,
                 summary, merkle, AuditLog, sessions, chain_report,
                 wall_clock, json_call,
                 previous>>

\* Lines 69-96: the results for the logs from the i-th on.
RECURSIVE LegacyResults(_, _, _)
LegacyResults(logs, i, expected_prev_hash) ==
  IF i > Len(logs) THEN <<>>
  ELSE LET log == logs[i]
           link_valid == log.prevHash = expected_prev_hash
           content_valid ==
             log.eventHash = _compute_hash(canonical_json(LegacyEventData(log)))
           log_valid == link_valid /\ content_valid
       IN << [id |-> log._id, timestamp |-> log.timestamp,
              action |-> log.action, isValid |-> log_valid,
              reason |-> IF log_valid THEN None
                         ELSE IF ~link_valid THEN Some("Link broken")
                         ELSE Some("Content tampered")] >>
          \o LegacyResults(logs, i + 1, log.eventHash)

\* Lines 60-98: verify_chain of audit.py, which has one await.
LegacyVerifyChain ==
  /\ IsNone(chain_report)
  /\ \E org \in Orgs, limit \in {1, MaxLegacyCalls} :
       LET logs == Take(SortByTimestampId({d \in db_audit_logs : d.orgId = org}),
                        limit)
           results == LegacyResults(logs, 1, ZeroHash)
       IN chain_report' =
            Some([orgId |-> org, limit |-> limit,
                  isValid |-> \A i \in 1..Len(results) : results[i].isValid,
                  totalVerified |-> Len(logs), results |-> results])
  /\ UNCHANGED <<audit_logs, checkpoints, signing_key, uuids, pc, loc,
                 started, ver, ve, tamper, _secrets, key_lookups, export,
                 summary, merkle, AuditLog, sessions, db_audit_logs,
                 log_calls, wall_clock, json_call,
                 previous>>

(***************************************************************************)
(* Tampering: a write to audit_logs_v2 that does not go through the        *)
(* logger.  The unique index on (orgId, sequence) binds it as any write.   *)
(***************************************************************************)
HashedFields ==
  {"id", "orgId", "sequence", "timestamp", "actor", "action", "entity",
   "entityId", "details", "requestId", "ipAddress", "userAgent", "prevHash"}

SealFields == {"entryHash", "signature"}

\* The values a stored field may be overwritten with.
Alternatives(d, field) ==
  CASE field = "id" -> {0} \cup {e.id : e \in audit_logs}
    [] field = "orgId" -> Orgs \cup {"ORG-X"}
    [] field = "sequence" -> 0..(Cardinality(audit_logs) + 1)
    [] field = "timestamp" -> {IsoFormat(0)}
    [] field = "actor" -> {"mallory"}
    [] field = "action" -> {"DELETE"}
    [] field = "entity" -> {"PATIENT"}
    [] field = "entityId" -> {None, Some("S-2")}
    [] field = "details" -> {<<>>, << <<"role", "USER">> >>}
    [] field = "requestId" -> {None, Some("rq-2")}
    [] field = "ipAddress" -> {None, Some("10.6.6.6")}
    [] field = "userAgent" -> {None, Some("curl")}
    [] field = "prevHash" -> {ZeroHash} \cup {e.entryHash : e \in audit_logs}
    [] field = "entryHash" ->
         {_compute_hash(canonical_json(<<>>))} \cup {e.entryHash : e \in audit_logs}
    [] field = "signature" ->
         {HmacSha256("forged-key", Concat(canonical_json(EntryData(d)), d.entryHash))}
           \cup {e.signature : e \in audit_logs}

IndexAllows(docs) ==
  \A d, e \in docs : (d.orgId = e.orgId /\ d.sequence = e.sequence) => d = e

Quiescent == \A c \in Callers : pc[c] \notin InFlight

TamperFrame ==
  UNCHANGED <<checkpoints, signing_key, uuids, pc, loc, started, ver, ve,
              _secrets, key_lookups, export, summary, merkle, others>>

\* update_one: one field of one stored entry is overwritten.
TamperAlter ==
  /\ IsNone(tamper) /\ Quiescent
  /\ \E d \in audit_logs, field \in HashedFields \cup SealFields :
       \E v \in Alternatives(d, field) \ {d[field]} :
         LET changed == [d EXCEPT ![field] = v]
         IN /\ IndexAllows((audit_logs \ {d}) \cup {changed})
            /\ audit_logs' = (audit_logs \ {d}) \cup {changed}
            /\ tamper' = Some([kind |-> "alter", field |-> field,
                               org |-> d.orgId, sequence |-> d.sequence,
                               id |-> changed.id])
  /\ TamperFrame

\* delete_one: one stored entry is removed.
TamperDelete ==
  /\ IsNone(tamper) /\ Quiescent
  /\ \E d \in audit_logs :
       /\ audit_logs' = audit_logs \ {d}
       /\ tamper' = Some([kind |-> "delete", field |-> "",
                          org |-> d.orgId, sequence |-> d.sequence,
                          id |-> d.id])
  /\ TamperFrame

\* insert_one: a stored entry is replayed at another sequence of its tenant.
TamperInsert ==
  /\ IsNone(tamper) /\ Quiescent
  /\ \E d \in audit_logs, n \in 0..(Cardinality(audit_logs) + 1) :
       LET copy == [d EXCEPT !.sequence = n]
       IN /\ IndexAllows(audit_logs \cup {copy})
          /\ copy \notin audit_logs
          /\ audit_logs' = audit_logs \cup {copy}
          /\ tamper' = Some([kind |-> "insert", field |-> "",
                             org |-> d.orgId, sequence |-> n, id |-> d.id])
  /\ TamperFrame

\* Two entries of a tenant trade places: their sequence values are swapped.
TamperReorder ==
  /\ IsNone(tamper) /\ Quiescent
  /\ \E d, e \in audit_logs :
       /\ d.orgId = e.orgId /\ d.sequence < e.sequence
       /\ audit_logs' = (audit_logs \ {d, e})
                           \cup {[d EXCEPT !.sequence = e.sequence],
                                 [e EXCEPT !.sequence = d.sequence]}
       /\ tamper' = Some([kind |-> "reorder", field |-> "",
                          org |-> d.orgId, sequence |-> d.sequence,
                          id |-> d.id])
  /\ TamperFrame

(***************************************************************************)
(* Storage rewritten between two verification calls.  What the calls       *)
(* returned so far is kept, and the calls can be made again.               *)
(***************************************************************************)
KeepResults(what) ==
  /\ previous' = Some([rewritten |-> what, ve |-> ve, ver |-> ver,
                        summary |-> summary])
  /\ ve' = None
  /\ ver' = NoVerify
  /\ summary' = None

\* Lines 227-232 on a collection holding docs: the entries verify_chain
\* fetches for the tenant, ascending by sequence, at most limit.
PrefixOf(docs, org, limit) ==
  Take(SortBySequence({d \in docs : d.orgId = org}), limit)

\* What audit_logs_v2 may hold after one write behind the logger to the
\* tenant's entries: one field other than orgId overwritten, one entry
\* deleted, or one entry replayed at another sequence.
RewrittenLogs(org) ==
  LET own == OrgEntries(org) IN
  {logs \in
     UNION {{(audit_logs \ {d}) \cup {[d EXCEPT ![field] = v]} :
               v \in Alternatives(d, field) \ {d[field]}} :
            d \in own, field \in (HashedFields \cup SealFields) \ {"orgId"}}
     \cup {audit_logs \ {d} : d \in own}
     \cup {audit_logs \cup {[d EXCEPT !.sequence = n]} :
             d \in own, n \in 0..(Cardinality(audit_logs) + 1)} :
   IndexAllows(logs) /\ logs # audit_logs}

\* After a verify_chain call has returned, entries of the tenant beyond the
\* ones it fetched are rewritten; the fetched ones stay as they are, and
\* stay the lowest min(limit, N) of the tenant.
AlterBeyondPrefix ==
  /\ IsNone(previous) /\ Quiescent
  /\ ver.pc = "done"
  /\ \E logs \in RewrittenLogs(ver.org) :
       /\ PrefixOf(logs, ver.org, ver.limit) = ver.entries
       /\ audit_logs' = logs
  /\ KeepResults("entries")
  /\ UNCHANGED <<checkpoints, signing_key, uuids, pc, loc, started, tamper,
                 _secrets, key_lookups, export, merkle, AuditLog, sessions,
                 db_audit_logs, log_calls, chain_report, wall_clock,
                 json_call>>

\* What audit_checkpoints may hold after a write behind the logger: every
\* checkpoint gone, one deleted, one with its merkleRoot, its range, its
\* entry count or its signature overwritten, or a forged one added.
ForgedSignature(k) == HmacSha256("forged-key", canonical_json(CheckpointData(k)))
ForgedCheckpoint(org) ==
  LET k == [id |-> 0, orgId |-> org, fromSequence |-> 1, upToSequence |-> 1,
            entryCount |-> 1, merkleRoot |-> ZeroHash,
            timestamp |-> IsoFormat(0)]
  IN k @@ [signature |-> ForgedSignature(k)]
RewrittenCheckpoints ==
  {cps \in
     {{}}
     \cup {checkpoints \ {k} : k \in checkpoints}
     \cup UNION {{(checkpoints \ {k}) \cup {changed} :
                    changed \in
                      {[k EXCEPT !.merkleRoot = ZeroHash],
                       [k EXCEPT !.fromSequence = @ + 1],
                       [k EXCEPT !.upToSequence = @ + 1],
                       [k EXCEPT !.entryCount = 0],
                       [k EXCEPT !.signature = ForgedSignature(k)]}} :
                  k \in checkpoints}
     \cup {checkpoints \cup {ForgedCheckpoint(org)} : org \in Orgs} :
   cps # checkpoints}

\* A verify_entry, verify_chain or get_audit_summary call has ended.
ReaderEnded ==
  \/ ~IsNone(ve)
  \/ IsNone(summary) /\ ver.pc = "done"
  \/ ~IsNone(summary) /\ summary[1].pc \in {"done", "failed"}

\* After a verification call has ended, audit_checkpoints is rewritten;
\* audit_logs_v2 stays as it is.
AlterCheckpoints ==
  /\ IsNone(previous) /\ Quiescent
  /\ ReaderEnded
  /\ checkpoints' \in RewrittenCheckpoints
  /\ KeepResults("checkpoints")
  /\ UNCHANGED <<audit_logs, signing_key, uuids, pc, loc, started, tamper,
                 _secrets, key_lookups, export, merkle, AuditLog, sessions,
                 db_audit_logs, log_calls, chain_report, wall_clock,
                 json_call>>

(***************************************************************************)
(* canonical_json called on its own.                                       *)
(***************************************************************************)
\* Lines 50-53: canonical_json(data).
CanonicalJson ==
  /\ json_call = None
  /\ \E data \in PyMaps :
       json_call' = Some([data |-> data,
                          json |-> canonical_json(DumpItems(data))])
  /\ UNCHANGED <<audit_logs, checkpoints, signing_key, uuids, pc, loc,
                 started, ver, ve, tamper, _secrets, key_lookups, export,
                 summary, merkle, AuditLog, sessions, db_audit_logs,
                 log_calls, chain_report, wall_clock, previous>>

(***************************************************************************)
(* Specifications.                                                         *)
(***************************************************************************)
\* The steps of a log_event call after its first read.
LogEventRest(c) ==
  \/ LogEventBuildEntry(c)
  \/ LogEventInsert(c)
  \/ CheckpointReadLast(c)
  \/ CheckpointFetch(c)
  \/ CheckpointInsert(c)

\* Concurrent log_event calls of the request handlers.
Next ==
  \E c \in Callers :
    \/ started < MaxCalls /\ LogEventGetNextSequence(c)
    \/ LogEventRest(c)

Spec == Init /\ [][Next]_vars

\* Concurrent log_event calls with one verify_chain call running among them.
NextVerify ==
  \/ \E c \in Callers :
        \/ started < MaxVerifyCalls /\ LogEventGetNextSequence(c)
        \/ LogEventRest(c)
  \/ VerifyChainFind
  \/ VerifyChainStep

SpecVerify == Init /\ [][NextVerify]_vars

\* Successful log_event calls one at a time, then one act of tampering on
\* the quiescent ledger, then one verification call: verify_entry, or
\* verify_chain on the tenant that was tampered with.
NextTamper ==
  \/ \E c \in Callers :
        \/ /\ started < MaxTamperCalls /\ IsNone(tamper) /\ Quiescent
           /\ LogEventGetNextSequence(c)
           /\ pc'[c] # "failed"
        \/ LogEventRest(c) /\ pc'[c] # "failed"
  \/ TamperAlter
  \/ TamperDelete
  \/ TamperInsert
  \/ TamperReorder
  \/ /\ ~IsNone(tamper) /\ IsNone(ve)
     /\ VerifyChainFind
     /\ ver'.org = tamper[1].org
  \/ VerifyChainStep
  \/ ~IsNone(tamper) /\ ver.pc = "idle" /\ VerifyEntry

SpecTamper == Init /\ [][NextTamper]_vars

\* Concurrent log_event calls, enough of them for a tenant to reach its
\* second checkpoint while the build of its first is still running.
NextCheckpoint ==
  \E c \in Callers :
    \/ started < MaxCheckpointCalls /\ LogEventGetNextSequence(c)
    \/ LogEventRest(c)

SpecCheckpoint == Init /\ [][NextCheckpoint]_vars

\* log_event calls that do not overlap and all succeed.
NextSequential ==
  \E c \in Callers :
    \/ /\ started < MaxSequentialCalls /\ Quiescent
       /\ LogEventGetNextSequence(c)
       /\ pc'[c] # "failed"
    \/ LogEventRest(c) /\ pc'[c] # "failed"

SpecSequential == Init /\ [][NextSequential]_vars

\* log_event called by one handler with any combination of its optional
\* arguments, and verify_entry called on an entry id.
NextRoundTrip ==
  \/ \E ev \in AllEvents :
       started < MaxRoundTripCalls /\ LogEventStart("view", ev)
  \/ LogEventRest("view")
  \/ VerifyEntry

SpecRoundTrip == Init /\ [][NextRoundTrip]_vars

\* log_event calls of one handler, all of which succeed, and one
\* export_for_archive call running among them.
NextExport ==
  \/ /\ started < MaxExportCalls
     /\ LogEventGetNextSequence("view")
     /\ pc'["view"] # "failed"
  \/ LogEventRest("view") /\ pc'["view"] # "failed"
  \/ ExportFetchEntries
  \/ ExportFetchCheckpoints

SpecExport == Init /\ [][NextExport]_vars

\* Each request handler calls log_event at most once, concurrently, with
\* failures; when all calls have ended get_audit_summary is called, and no
\* log_event call starts after it.
NextSummary ==
  \/ \E c \in Callers :
        \/ /\ pc[c] = "idle" /\ IsNone(summary)
           /\ LogEventGetNextSequence(c)
        \/ LogEventRest(c)
  \/ Quiescent /\ GetAuditSummary

SpecSummary == Init /\ [][NextSummary]_vars

\* No verify_entry, verify_chain, export_for_archive or get_audit_summary
\* call has been made yet.
NoReaderYet ==
  IsNone(ve) /\ ver.pc = "idle" /\ IsNone(export) /\ IsNone(summary)

\* Every operation of the logger: concurrent log_event calls with failures,
\* and among them one call of verify_entry, of verify_chain, of
\* export_for_archive (with the endpoint's default range) or of
\* get_audit_summary, while the secret provider may rotate the key.
NextOperations ==
  \/ \E c \in Callers :
        \/ started < MaxOperationCalls /\ LogEventGetNextSequence(c)
        \/ LogEventRest(c)
  \/ NoReaderYet /\ VerifyEntry
  \/ NoReaderYet /\ VerifyChainFind
  \/ IsNone(summary) /\ VerifyChainStep
  \/ NoReaderYet /\ \E org \in Orgs : ExportCalled(org, 1, None)
  \/ ExportFetchCheckpoints
  \/ (NoReaderYet \/ ~IsNone(summary)) /\ GetAuditSummary
  \/ RotateSecret

SpecOperations == Init /\ [][NextOperations]_vars

\* backend_v2: AuditLogger.log called from two database sessions.
NextV2 ==
  \E s \in Sessions :
    \/ V2Started < MaxV2Calls /\ V2QueryLast(s)
    \/ V2Timestamp(s)
    \/ V2Commit(s)

SpecV2 == Init /\ [][NextV2]_vars

\* audit.py: concurrent log_event calls of the handlers and one
\* verify_chain call.
NextLegacy ==
  \/ \E c \in Callers :
        \/ wall_clock < MaxLegacyCalls /\ LegacyLogEvent(c)
        \/ LegacyGetLastHash(c)
        \/ LegacyInsert(c)
  \/ LegacyVerifyChain

SpecLegacy == Init /\ [][NextLegacy]_vars

\* Successful log_event calls one at a time, then verify_chain on the
\* quiescent ledger, then a write to the tenant's entries beyond the ones
\* it fetched, then verify_chain with the same arguments again.
NextPrefix ==
  \/ \E c \in Callers :
        \/ /\ started < MaxPrefixCalls /\ Quiescent
           /\ ver.pc = "idle" /\ IsNone(previous)
           /\ LogEventGetNextSequence(c)
           /\ pc'[c] # "failed"
        \/ LogEventRest(c) /\ pc'[c] # "failed"
  \/ IsNone(previous) /\ Quiescent /\ VerifyChainFind
  \/ /\ ~IsNone(previous)
     /\ VerifyChainFind
     /\ ver'.org = previous[1].ver.org /\ ver'.limit = previous[1].ver.limit
  \/ VerifyChainStep
  \/ AlterBeyondPrefix

SpecPrefix == Init /\ [][NextPrefix]_vars

\* Successful log_event calls one at a time, then possibly an entry
\* deleted or two entries reordered in storage, then one verification call
\* (verify_entry, verify_chain or get_audit_summary), then a write to
\* audit_checkpoints, then the same call with the same arguments again.
NextRewrittenCheckpoints ==
  \/ \E c \in Callers :
        \/ /\ started < MaxRewriteCalls /\ Quiescent
           /\ IsNone(tamper) /\ NoReaderYet /\ IsNone(previous)
           /\ LogEventGetNextSequence(c)
           /\ pc'[c] # "failed"
        \/ LogEventRest(c) /\ pc'[c] # "failed"
  \/ NoReaderYet /\ IsNone(previous) /\ TamperDelete
  \/ NoReaderYet /\ IsNone(previous) /\ TamperReorder
  \/ /\ NoReaderYet /\ Quiescent
     /\ VerifyEntry
     /\ IsNone(previous) \/ (/\ ~IsNone(previous[1].ve)
                              /\ ve'[1].entry_id = previous[1].ve[1].entry_id)
  \/ /\ NoReaderYet /\ Quiescent
     /\ VerifyChainFind
     /\ IsNone(previous) \/ (/\ IsNone(previous[1].summary)
                              /\ previous[1].ver.pc = "done"
                              /\ ver'.org = previous[1].ver.org
                              /\ ver'.limit = previous[1].ver.limit)
  \/ IsNone(summary) /\ VerifyChainStep
  \/ /\ (NoReaderYet /\ Quiescent) \/ ~IsNone(summary)
     /\ GetAuditSummary
     /\ IsNone(previous) \/ (/\ ~IsNone(previous[1].summary)
                              /\ summary'[1].org = previous[1].summary[1].org)
  \/ AlterCheckpoints

SpecRewrittenCheckpoints == Init /\ [][NextRewrittenCheckpoints]_vars

\* canonical_json is called on a dict, and log_event is called by one
\* handler with any combination of its optional arguments and builds and
\* inserts its entry.
NextCanonical ==
  \/ CanonicalJson
  \/ \E ev \in AllEvents :
       started < MaxCanonicalCalls /\ LogEventStart("view", ev)
  \/ LogEventBuildEntry("view")
  \/ LogEventInsert("view")

SpecCanonical == Init /\ [][NextCanonical]_vars

\* _compute_merkle_root on every list of at most MaxLeaves hashes.
InitMerkle ==
  /\ InitLogger
  /\ InitOtherLoggers
  /\ merkle \in {Some([leaves |-> l, hashes |-> l, roots |-> <<>>,
                        swapped |-> None]) : l \in LeafLists}

NextMerkle == ComputeMerkleRoot \/ ComputeSwappedRoot

SpecMerkle == InitMerkle /\ [][NextMerkle]_vars

(***************************************************************************)
(* Properties of the ledger writer (checked under Spec).                   *)
(***************************************************************************)
OrgHasRace(org) ==
  /\ Cardinality(OrgEntries(org)) >= 2
  /\ \E c \in Callers : pc[c] = "failed" /\ loc[c].err = "DuplicateKeyError"

\* C1: under the unique (orgId, sequence) index and without tampering,
\* every tenant's entry with sequence 1 has prevHash = 64 zeros and every
\* entry with sequence n > 1 has prevHash equal to the stored entryHash of
\* that tenant's entry with sequence n - 1, whatever the interleaving of
\* the log_event calls.
C1_HashChainLinked ==
  \A d \in audit_logs :
    /\ d.sequence >= 1
    /\ d.sequence = 1 => d.prevHash = ZeroHash
    /\ d.sequence > 1 =>
         /\ \E p \in OrgEntries(d.orgId) : p.sequence = d.sequence - 1
         /\ \A p \in OrgEntries(d.orgId) :
              p.sequence = d.sequence - 1 => d.prevHash = p.entryHash

\* A tenant holds a chain of at least two entries and a concurrent call
\* lost the race for a sequence.
C1_Witness == \E org \in Orgs : OrgHasRace(org)

\* C2: the sequence values of a tenant's persisted entries are exactly
\* 1..N, N the number of its entries: no gap, no duplicate, first is 1.
C2_SequencesContiguous ==
  \A org \in Orgs :
    /\ {d.sequence : d \in OrgEntries(org)} = 1..Cardinality(OrgEntries(org))
    /\ \A d, e \in OrgEntries(org) : d.sequence = e.sequence => d = e

\* Two tenants are numbered side by side: one holds entries 1 and 2, the
\* other its own entry 1.
C2_Witness ==
  \E org, other \in Orgs :
    /\ Cardinality(OrgEntries(org)) = 2
    /\ Cardinality(OrgEntries(other)) = 1

\* C3: concurrent log_event calls of one tenant all complete with an entry
\* id: no call is turned down because of the sequence a concurrent call
\* took; a call fails only when the storage or the secret provider fails.
C3_ConcurrentCallsAllComplete ==
  \A c \in Callers :
    pc[c] = "failed" => loc[c].err \in {"StorageError", "SecretsValidationError"}

\* C4: a call whose insert the unique index rejects goes back to reading
\* the tenant's last entry and retries; it gives up only with
\* ConcurrencyExhausted.
C4_LoserRetries ==
  [][\A c \in Callers :
       ( /\ pc[c] = "insert"
         /\ DuplicateKey(loc[c].doc[1])
         /\ pc'[c] # "insert"
         /\ ~(pc'[c] = "failed" /\ loc'[c].err = "StorageError") )
       => \/ pc'[c] = "read_last"
          \/ pc'[c] = "failed" /\ loc'[c].err = "ConcurrencyExhausted"]_vars

\* C9: whenever log_event has returned an entry id, the document it built
\* (that id, its sequence, prevHash, entryHash and signature) is in the
\* tenant's ledger.
C9_ReturnedEntryPersisted ==
  \A c \in Callers :
    pc[c] = "returned" =>
      /\ ~IsNone(loc[c].ret) /\ ~IsNone(loc[c].doc)
      /\ loc[c].ret[1] = loc[c].doc[1].id
      /\ loc[c].doc[1] \in audit_logs
      /\ \A d \in audit_logs : d.id = loc[c].ret[1] => d = loc[c].doc[1]

\* A call has returned after its checkpoint build, another without one.
C9_Witness ==
  \E c, d \in Callers :
    /\ pc[c] = "returned" /\ loc[c].doc[1].sequence % CHECKPOINT_INTERVAL = 0
    /\ pc[d] = "returned" /\ loc[d].doc[1].sequence % CHECKPOINT_INTERVAL # 0

BeforeCheckpoint(c) == pc[c] \notin {"cp_read_last", "cp_fetch", "cp_insert"}

\* C10: a step of a log_event call up to and including its insert either
\* goes on towards the insert with nothing stored, or stores the call's
\* document, or ends the call with the error of the failed read, key
\* lookup or insert: then no entry id is returned and nothing of that call
\* is in the ledger.
C10_FailurePropagates ==
  [][\A c \in Callers :
       ((pc'[c] # pc[c] \/ loc'[c] # loc[c]) /\ BeforeCheckpoint(c)) =>
         \/ /\ pc'[c] \in {"read_last", "insert"}
            /\ audit_logs' = audit_logs
         \/ /\ pc'[c] \in {"cp_read_last", "returned"}
            /\ pc[c] = "insert"
            /\ loc[c].doc[1] \in audit_logs'
         \/ /\ pc'[c] = "failed"
            /\ loc'[c].err \in {"StorageError", "SecretsValidationError",
                                "DuplicateKeyError"}
            /\ loc'[c].stage \in {"read", "key", "insert"}
            /\ loc'[c].stage = "key" <=> loc'[c].err = "SecretsValidationError"
            /\ IsNone(loc'[c].ret)
            /\ audit_logs' = audit_logs
            /\ pc[c] = "insert" => loc[c].doc[1] \notin audit_logs']_vars

\* The key lookup of one call and the insert of another have failed.
C10_Witness ==
  \E c, d \in Callers :
    /\ pc[c] = "failed" /\ loc[c].stage = "key"
    /\ pc[d] = "failed" /\ loc[d].stage = "insert" /\ loc[d].err = "StorageError"

\* C15: a log_event call whose sequence is a multiple of
\* CHECKPOINT_INTERVAL has not returned before a checkpoint of its tenant
\* with upToSequence = that sequence is stored, and the checkpoint is
\* inserted after the call's entry; a call whose sequence is not a
\* multiple of the interval stores no checkpoint.
C15_CheckpointBeforeReturn ==
  /\ [](\A c \in Callers :
          (pc[c] = "returned" /\ loc[c].doc[1].sequence % CHECKPOINT_INTERVAL = 0)
            => \E k \in checkpoints :
                 /\ k.orgId = loc[c].doc[1].orgId
                 /\ k.upToSequence = loc[c].doc[1].sequence)
  /\ [][checkpoints' # checkpoints =>
          \E c \in Callers :
            /\ pc'[c] # pc[c]
            /\ pc[c] \in InFlight
            /\ loc[c].sequence % CHECKPOINT_INTERVAL = 0
            /\ loc[c].doc[1] \in audit_logs
            /\ checkpoints \subseteq checkpoints'
            /\ \A k \in checkpoints' \ checkpoints :
                 k.orgId = loc[c].org /\ k.upToSequence = loc[c].sequence]_vars

\* The call that wrote entry 2 of a tenant has returned with its checkpoint
\* stored; the call that wrote entry 3 has returned and stored none.
C15_Witness ==
  \E c, d \in Callers :
    /\ pc[c] = "returned" /\ loc[c].doc[1].sequence = CHECKPOINT_INTERVAL
    /\ pc[d] = "returned" /\ loc[d].doc[1].sequence = CHECKPOINT_INTERVAL + 1
    /\ loc[c].doc[1].orgId = loc[d].doc[1].orgId
    /\ Cardinality(checkpoints) = 1

\* C17: a step of a log_event call for one tenant, its checkpoint build
\* included, leaves every other tenant's entries, next sequence number and
\* checkpoints unchanged and does not touch the other calls; a call is
\* turned down for its sequence only by an entry of its own tenant, the
\* sequence it is given is one more than the number of its own tenant's
\* entries, and a call in progress can always take its next step.
C17_TenantsIndependent ==
  /\ [](\A c \in Callers : pc[c] \in InFlight => ENABLED LogEventRest(c))
  /\ [][\A c \in Callers :
          pc'[c] # pc[c] =>
            /\ \A a \in Orgs :
                 (IF pc[c] \in InFlight THEN loc[c].org ELSE loc'[c].org) # a
                   => /\ {d \in audit_logs' : d.orgId = a} = OrgEntries(a)
                      /\ {k \in checkpoints' : k.orgId = a}
                           = {k \in checkpoints : k.orgId = a}
                      /\ NextSequence(get_last_entry(a))'
                           = NextSequence(get_last_entry(a))
            /\ \A d \in Callers \ {c} : pc'[d] = pc[d] /\ loc'[d] = loc[d]
            /\ (pc'[c] = "failed" /\ loc'[c].err = "DuplicateKeyError")
                 => \E d \in OrgEntries(loc[c].org) :
                      d.sequence = loc[c].sequence
            /\ pc'[c] = "read_last"
                 => loc'[c].sequence
                      = Cardinality(OrgEntries(loc'[c].org)) + 1]_vars

\* A call is about to insert its tenant's first entry while the call of
\* another tenant is inside its checkpoint build.
C17_Witness ==
  \E c, d \in Callers :
    /\ pc[c] = "cp_insert" /\ pc[d] = "insert"
    /\ loc[c].org # loc[d].org
    /\ loc[d].sequence = 1

(***************************************************************************)
(* Properties of the verifier on an untampered ledger (SpecVerify).        *)
(***************************************************************************)
\* The limit of the finished verify_chain call was at least the number of
\* entries the tenant had when they were fetched.
LimitCoveredLedger ==
  \/ Len(ver.entries) < ver.limit
  \/ Len(ver.entries) = Cardinality(OrgEntries(ver.org))

\* C8: on a ledger written only by log_event, verify_chain with a limit
\* that covers the ledger reports valid, no issue, totalVerified = the
\* number of entries it examined (0 and no issue on an empty ledger) and
\* lastSequence = the highest sequence it fetched, also when log_event
\* calls run while it verifies.
C8_NoFalsePositive ==
  (ver.pc = "done" /\ LimitCoveredLedger) =>
    LET r == ver.result[1]
        n == Len(ver.entries)
    IN /\ r.valid
       /\ r.issues = <<>>
       /\ r.totalVerified = n
       /\ n > 0 => ver.i = n + 1
       /\ n > 0 => r.lastSequence = Some(n)
       /\ \A i \in 1..n : ver.entries[i] \in audit_logs
                            /\ ver.entries[i].sequence = i
                            /\ ver.entries[i].orgId = ver.org
       /\ n = 0 => r.totalVerified = 0

\* A verification of a chain of one entry has finished although the tenant
\* has two entries by now: the second was appended while it ran.
C8_Witness ==
  /\ ver.pc = "done" /\ ver.limit > 1
  /\ Len(ver.entries) = 1
  /\ Cardinality(OrgEntries(ver.org)) = 2

(***************************************************************************)
(* Properties of the verifier after tampering (SpecTamper).                *)
(***************************************************************************)
\* The content fields of an entry: what it records about the action.
ContentFields ==
  {"timestamp", "actor", "action", "entity", "entityId", "details",
   "requestId", "ipAddress", "userAgent"}

\* C5: after one hashed field of a stored entry was changed, with
\* entryHash and signature left as stored, verify_entry for that entry
\* (for the id it is stored under) returns valid = false.
C5_AlteredEntryInvalid ==
  (/\ ~IsNone(ve) /\ ~IsNone(ve[1].after)
   /\ ve[1].after[1].kind = "alter"
   /\ ve[1].after[1].field \in HashedFields
   /\ ve[1].entry_id = ve[1].after[1].id)
  => ~ve[1].result.valid

\* verify_chain has run with a covering limit on the tenant of the one
\* entry whose field, one of `fields`, was altered.
ChainVerifiedAfterAlter(fields) ==
  /\ ver.pc = "done" /\ ~IsNone(ver.after)
  /\ ver.after[1].kind = "alter"
  /\ ver.after[1].field \in fields
  /\ ver.limit >= Cardinality(OrgEntries(ver.org))

\* The report has exactly one issue: an integrity_failure at sequence k.
OnlyIntegrityFailureAt(k) ==
  LET r == ver.result[1]
  IN /\ ~r.valid
     /\ Len(r.issues) = 1
     /\ r.issues[1].type = "integrity_failure"
     /\ r.issues[1].sequence = k

\* C6 as stated: after altering a hashed field other than prevHash of the
\* entry at sequence k, verify_chain reports exactly one issue, an
\* integrity_failure at k.
C6_AnyFieldOneIssue ==
  ChainVerifiedAfterAlter(HashedFields \ {"prevHash"})
    => OnlyIntegrityFailureAt(ver.after[1].sequence)

\* C6 as amended: after altering a content field (timestamp, actor,
\* action, entity, entityId, details, requestId, ipAddress or userAgent)
\* of the entry at sequence k, verify_chain with a covering limit reports
\* exactly one issue, an integrity_failure at k, and no chain_break.
C6_ContentFieldOneIssue ==
  ChainVerifiedAfterAlter(ContentFields)
    => OnlyIntegrityFailureAt(ver.after[1].sequence)

\* The action of entry 1 of a chain of two was altered and verified.
C6_Witness ==
  /\ ChainVerifiedAfterAlter({"action"})
  /\ ver.after[1].sequence = 1
  /\ Len(ver.entries) = 2

\* C7: after any one act of tampering with a tenant's stored entries (a
\* field, entryHash or signature altered, an entry deleted, inserted or
\* reordered), verify_chain with a covering limit returns valid = false.
C7_TamperingDetected ==
  (/\ ver.pc = "done" /\ ~IsNone(ver.after)
   /\ ver.limit >= Cardinality(OrgEntries(ver.org)))
  => ~ver.result[1].valid

\* The entry that was altered, as it is stored now.
IsAltered(d, t) ==
  /\ d.id = t.id
  /\ t.field = "sequence" \/ d.sequence = t.sequence

\* The report has an integrity_failure for sequence n.
HasIntegrityFailure(r, n) ==
  \E j \in 1..Len(r.issues) :
    r.issues[j].type = "integrity_failure" /\ r.issues[j].sequence = n

\* C18: verify_chain examines every one of the first min(limit, N) entries:
\* totalVerified = min(limit, N), and an entry among them that was tampered
\* with (a hashed field, entryHash or signature altered) has its own
\* integrity_failure issue.
C18_EveryTamperedEntryReported ==
  (ver.pc = "done" /\ ~IsNone(ver.after) /\ ver.after[1].kind = "alter") =>
    LET r == ver.result[1]
        N == Cardinality(OrgEntries(ver.org))
    IN /\ r.totalVerified = IF ver.limit < N THEN ver.limit ELSE N
       /\ \A i \in 1..Len(ver.entries) :
            IsAltered(ver.entries[i], ver.after[1])
              => HasIntegrityFailure(r, ver.entries[i].sequence)

\* The report has a chain_break for sequence n.
HasChainBreak(r, n) ==
  \E j \in 1..Len(r.issues) :
    r.issues[j].type = "chain_break" /\ r.issues[j].sequence = n

\* The issues of the report, each as its type and sequence.
IssueList(r) ==
  [j \in 1..Len(r.issues) |-> <<r.issues[j].type, r.issues[j].sequence>>]

\* C19: verify_chain reports a chain_break at an examined entry exactly
\* when its stored prevHash differs from the stored entryHash of the entry
\* examined before it (the zero hash for the first), whether or not that
\* entry passed its own check; after only the stored entryHash of entry k
\* was overwritten the issues are an integrity_failure at k and, when
\* entry k+1 is examined, a chain_break at k+1, and nothing else.
C19_ChainBreakFromStoredHash ==
  (ver.pc = "done" /\ Len(ver.entries) > 0) =>
    LET r == ver.result[1]
        e == ver.entries
    IN /\ \A i \in 1..Len(e) :
            HasChainBreak(r, e[i].sequence)
              <=> e[i].prevHash # (IF i = 1 THEN ZeroHash ELSE e[i - 1].entryHash)
       /\ ChainVerifiedAfterAlter({"entryHash"}) =>
            LET k == ver.after[1].sequence
            IN IssueList(r) =
                 IF \E i \in 1..Len(e) : e[i].sequence = k + 1
                 THEN << <<"integrity_failure", k>>, <<"chain_break", k + 1>> >>
                 ELSE << <<"integrity_failure", k>> >>

\* The stored entryHash of entry 1 of a chain of two was overwritten and
\* the chain verified: two issues.
C19_Witness ==
  /\ ChainVerifiedAfterAlter({"entryHash"})
  /\ ver.after[1].sequence = 1
  /\ Len(ver.entries) = 2
  /\ Len(ver.result[1].issues) = 2

(***************************************************************************)
(* Properties of the checkpoints (SpecCheckpoint).                         *)
(***************************************************************************)
TenantCheckpoints(org) == {k \in checkpoints : k.orgId = org}

\* The checkpoints of the tenant that start before k does.
EarlierCheckpoints(k) ==
  {j \in TenantCheckpoints(k.orgId) : j.fromSequence < k.fromSequence}

\* C11: a tenant's checkpoints tile the sequence space: ordered by
\* fromSequence the first starts at 1, each next one starts at the previous
\* upToSequence + 1, no two cover a common sequence, and every upToSequence
\* is a multiple of CHECKPOINT_INTERVAL, whatever the interleaving of the
\* log_event calls.
C11_CheckpointsTile ==
  \A org \in Orgs :
    \A k \in TenantCheckpoints(org) :
      /\ k.upToSequence % CHECKPOINT_INTERVAL = 0
      /\ k.fromSequence <= k.upToSequence
      /\ \A j \in TenantCheckpoints(org) :
           j # k => \/ j.upToSequence < k.fromSequence
                    \/ k.upToSequence < j.fromSequence
      /\ IF EarlierCheckpoints(k) = {}
         THEN k.fromSequence = 1
         ELSE \E j \in EarlierCheckpoints(k) :
                /\ k.fromSequence = j.upToSequence + 1
                /\ \A i \in EarlierCheckpoints(k) :
                     i.fromSequence <= j.fromSequence

\* A _create_checkpoint execution has read the last checkpoint and has not
\* yet inserted its own.
Building(c) == pc[c] \in {"cp_fetch", "cp_insert"}

\* C12: at no point are two _create_checkpoint executions of one tenant both
\* between their read of the last checkpoint and their insert.
C12_OneBuildPerTenant ==
  \A c, d \in Callers :
    (c # d /\ Building(c) /\ Building(d)) => loc[c].org # loc[d].org

\* C13: for every persisted checkpoint, every sequence of its range
\* fromSequence..upToSequence has a persisted entry of the tenant: no
\* checkpoint is visible before the entries of its range are.
C13_CheckpointEntriesPersisted ==
  \A k \in checkpoints :
    \A n \in k.fromSequence..k.upToSequence :
      \E d \in OrgEntries(k.orgId) : d.sequence = n

\* A checkpoint over more than one interval is stored (the build at the
\* boundary before it had failed or was still running).
C13_Witness ==
  \E k \in checkpoints :
    k.upToSequence - k.fromSequence + 1 > CHECKPOINT_INTERVAL

\* The entryHash values of the tenant's entries fromSequence..upToSequence,
\* ascending.
RangeHashes(k) ==
  LET entries == SortBySequence({d \in OrgEntries(k.orgId) :
                    d.sequence >= k.fromSequence /\ d.sequence <= k.upToSequence})
  IN [i \in 1..Len(entries) |-> entries[i].entryHash]

\* C14: every persisted checkpoint has entryCount = upToSequence -
\* fromSequence + 1 and its merkleRoot is the Merkle root of the entryHash
\* values of exactly the tenant's entries fromSequence..upToSequence in
\* ascending order, for a range of any length.
C14_CheckpointCoversRange ==
  \A k \in checkpoints :
    /\ k.entryCount = k.upToSequence - k.fromSequence + 1
    /\ k.merkleRoot = _compute_merkle_root(RangeHashes(k))

(***************************************************************************)
(* Checkpoints of calls made one after the other (SpecSequential).         *)
(***************************************************************************)
\* The range and the entry count of a checkpoint.
Coverage(k) == <<k.fromSequence, k.upToSequence, k.entryCount>>

\* C16: after N sequential successful log_event calls for a tenant, with
\* I = CHECKPOINT_INTERVAL, the tenant has exactly N \div I checkpoints, the
\* k-th covering (k-1)*I+1 .. k*I with entryCount I, and the entries above
\* (N \div I)*I are covered by no checkpoint.
C16_OneCheckpointPerInterval ==
  Quiescent =>
    /\ Cardinality(audit_logs) = started
    /\ \A org \in Orgs :
         LET N == Cardinality(OrgEntries(org))
             I == CHECKPOINT_INTERVAL
         IN /\ Cardinality(TenantCheckpoints(org)) = N \div I
            /\ {Coverage(k) : k \in TenantCheckpoints(org)}
                 = {<<(j - 1) * I + 1, j * I, I>> : j \in 1..(N \div I)}
            /\ \A d \in OrgEntries(org) :
                 d.sequence > (N \div I) * I =>
                   \A k \in TenantCheckpoints(org) :
                     ~(k.fromSequence <= d.sequence /\ d.sequence <= k.upToSequence)

\* A tenant has two full intervals and one entry more: two checkpoints,
\* the last entry beyond both.
C16_Witness ==
  /\ Quiescent
  /\ \E org \in Orgs :
       /\ Cardinality(OrgEntries(org)) = 2 * CHECKPOINT_INTERVAL + 1
       /\ Cardinality(TenantCheckpoints(org)) = 2

RefLevel(l) ==
  [i \in 1..((Len(l) + 1) \div 2) |->
     <<"sha256", <<l[2 * i - 1],
                   IF 2 * i <= Len(l) THEN l[2 * i] ELSE l[Len(l)]>> >>]

RECURSIVE RefFold(_)
RefFold(l) ==
  IF Len(l) = 0 THEN ZeroHash
  ELSE IF Len(l) = 1 THEN l[1]
  ELSE RefFold(RefLevel(l))

\* C21: for every list of at most MaxLeaves hashes _compute_merkle_root
\* returns the reference fold: 64 zeros for the empty list, the leaf for a
\* single leaf, otherwise level after level of hashed adjacent pairs, the
\* last hash of an odd level duplicated, until one hash remains.
C21_MerkleRootIsReferenceFold ==
  ~IsNone(merkle) =>
    /\ \A k \in 1..Len(merkle[1].roots) :
         merkle[1].roots[k] = RefFold(merkle[1].leaves)
    /\ (merkle[1].leaves = <<>> /\ merkle[1].roots # <<>>)
         => merkle[1].roots[1] = ZeroHash
    /\ (Len(merkle[1].leaves) = 1 /\ merkle[1].roots # <<>>)
         => merkle[1].roots[1] = merkle[1].leaves[1]

\* The root of a list of five hashes was computed: its first level and its
\* second level are both odd.
C21_Witness ==
  /\ ~IsNone(merkle)
  /\ Len(merkle[1].leaves) = 5
  /\ Len(merkle[1].roots) >= 1

\* C22: the root is a function of the ordered list: calling
\* _compute_merkle_root again on the same list gives the same root; and it
\* depends on the order: exchanging two different leaves gives another root.
C22_MerkleDeterministicOrderSensitive ==
  ~IsNone(merkle) =>
    LET m == merkle[1]
    IN /\ \A k \in 1..Len(m.roots) : m.roots[k] = m.roots[1]
       /\ (~IsNone(m.swapped) /\ m.roots # <<>>
              /\ m.leaves[m.swapped[1].i] # m.leaves[m.swapped[1].j])
            => m.swapped[1].root # m.roots[1]

\* C22 as stated: exchanging any two leaves, equal ones included, gives
\* another root.
C22_AnySwapChangesRoot ==
  ~IsNone(merkle) =>
    LET m == merkle[1]
    IN /\ \A k \in 1..Len(m.roots) : m.roots[k] = m.roots[1]
       /\ (~IsNone(m.swapped) /\ m.roots # <<>>)
            => m.swapped[1].root # m.roots[1]

\* A list of three hashes was folded twice and, with its first and last
\* hash (different ones) exchanged, once more.
C22_Witness ==
  /\ ~IsNone(merkle)
  /\ Len(merkle[1].leaves) = 3
  /\ Len(merkle[1].roots) = 2
  /\ ~IsNone(merkle[1].swapped)
  /\ merkle[1].swapped[1].i = 1 /\ merkle[1].swapped[1].j = 3
  /\ merkle[1].leaves[1] # merkle[1].leaves[3]

(***************************************************************************)
(* export_for_archive (SpecExport).                                        *)
(***************************************************************************)
\* The export call takes the step that reads the entries / that returns
\* the package.
ExportReadsEntries ==
  IsNone(export) /\ ~IsNone(export') /\ export'[1].pc = "entries"
ExportReturns ==
  ~IsNone(export) /\ export[1].pc = "entries" /\ export'[1].pc = "done"

\* The range [fromSequence, upToSequence] of checkpoint k and the requested
\* range [from, to] (unbounded above when to is omitted) have a sequence
\* in common.
Intersects(k, from, to) ==
  /\ k.upToSequence >= from
  /\ IsNone(to) \/ k.fromSequence <= to[1]

\* C23: the package export_for_archive(tenant, from, to) returns holds every
\* checkpoint of the tenant, as stored when the checkpoints are read, whose
\* range intersects [from, to], and no checkpoint of another tenant.
C23_ExportHasIntersectingCheckpoints ==
  [][ExportReturns =>
       LET x == export[1]
           package == export'[1].result[1]
       IN /\ \A k \in checkpoints :
               (k.orgId = x.org /\ Intersects(k, x.from_sequence, x.to_sequence))
                 => k \in package.checkpoints
          /\ \A k \in package.checkpoints : k.orgId = x.org]_vars

\* The stored entries of the tenant with from <= sequence <= to (no upper
\* end when to is omitted).
EntriesInRange(org, from, to) ==
  {d \in audit_logs :
     /\ d.orgId = org
     /\ d.sequence >= from
     /\ IsNone(to) \/ d.sequence <= to[1]}

\* entries is the range in ascending sequence order, cut after the cap.
IsExportOf(entries, range) ==
  /\ \A i \in 1..Len(entries) : entries[i] \in range
  /\ \A i, j \in 1..Len(entries) :
       i < j => entries[i].sequence < entries[j].sequence
  /\ Len(entries) = IF Cardinality(range) <= EXPORT_ENTRY_CAP
                    THEN Cardinality(range) ELSE EXPORT_ENTRY_CAP
  /\ \A d \in range :
       (\A i \in 1..Len(entries) : entries[i] # d)
         => \A i \in 1..Len(entries) : entries[i].sequence < d.sequence

\* C24: export_for_archive(tenant, from, to), for from >= 1 and to >= 0 or
\* omitted, reads exactly the stored entries of the tenant in [from, to], as
\* stored and ascending, up to the cap, and returns them; with no stored
\* entry in the range the package has entries = [] and entryCount = 0.
C24_ExportReturnsRange ==
  [][/\ ExportReadsEntries =>
          LET x == export'[1]
          IN IsExportOf(x.entries,
                        EntriesInRange(x.org, x.from_sequence, x.to_sequence))
     /\ ExportReturns =>
          LET package == export'[1].result[1]
          IN /\ package.entries = export[1].entries
             /\ package.entries = <<>> => package.entryCount = 0]_vars

\* The canonical JSON of the four declared values: the keys in sorted order.
BoundaryJson(org, from, to, count) ==
  <<"obj", << <<"entryCount", <<"int", count>> >>,
              <<"fromSequence", <<"int", from>> >>,
              <<"orgId", <<"str", org>> >>,
              <<"toSequence", <<"int", to>> >> >> >>

\* C25: every package export_for_archive returns is self-consistent:
\* entryCount is the number of its entries, each entry's sequence lies in
\* the declared [fromSequence, toSequence], and exportSignature is the
\* HMAC, under the logger's key, of the canonical JSON of exactly orgId,
\* fromSequence, toSequence and entryCount as declared; other declared
\* values give another signature.
C25_PackageSelfConsistent ==
  (~IsNone(export) /\ export[1].pc = "done") =>
    LET package == export[1].result[1]
        Signature(org, from, to, count) ==
          <<"hmac", signing_key[1], BoundaryJson(org, from, to, count)>>
    IN /\ package.entryCount = Len(package.entries)
       /\ \A i \in 1..Len(package.entries) :
            /\ package.fromSequence <= package.entries[i].sequence
            /\ package.entries[i].sequence <= package.toSequence
       /\ package.exportSignature =
            Signature(package.orgId, package.fromSequence,
                      package.toSequence, package.entryCount)
       /\ \A org \in Orgs, from \in FromSequences,
             to \in 0..MaxExportCalls, count \in 0..MaxExportCalls :
            <<org, from, to, count>> #
              <<package.orgId, package.fromSequence, package.toSequence,
                package.entryCount>>
              => Signature(org, from, to, count) # package.exportSignature

\* A package of several entries that starts after the first entry of the
\* tenant and ends before the requested end.
C25_Witness ==
  /\ ~IsNone(export)
  /\ export[1].pc = "done"
  /\ export[1].result[1].entryCount >= 2
  /\ export[1].result[1].fromSequence >= 2
  /\ ~IsNone(export[1].to_sequence)
  /\ export[1].result[1].toSequence < export[1].to_sequence[1]

(***************************************************************************)
(* Ordering by sequence (SpecVerify).                                      *)
(***************************************************************************)
\* The wall-clock reading stored in a document.
ClockOf(d) == d.timestamp[2]

\* The clock went backwards or stood still between two appends of the
\* tenant: a later sequence carries an earlier or the same timestamp.
ClockNotMonotonic(org) ==
  \E d, e \in OrgEntries(org) :
    d.sequence < e.sequence /\ ClockOf(e) <= ClockOf(d)

\* C27: sequence, never timestamp, orders the ledger: for a tenant whose
\* timestamps are not monotonic in sequence every entry still chains to the
\* entry of the next lower sequence, and a finished verify_chain has walked
\* the entries by ascending sequence and returns valid = true.
C27_SequenceIsOrderingKey ==
  \A org \in Orgs :
    ClockNotMonotonic(org) =>
      /\ \A d \in OrgEntries(org) :
           \/ d.sequence = 1 /\ d.prevHash = ZeroHash
           \/ \E p \in OrgEntries(org) :
                p.sequence = d.sequence - 1 /\ d.prevHash = p.entryHash
      /\ (ver.pc = "done" /\ ver.org = org) =>
           /\ ver.result[1].valid
           /\ \A i \in 1..Len(ver.entries) : ver.entries[i].sequence = i

\* verify_chain has finished on two entries of which the second was written
\* at an earlier clock reading than the first.
C27_Witness ==
  /\ ver.pc = "done"
  /\ Len(ver.entries) = 2
  /\ ClockOf(ver.entries[2]) < ClockOf(ver.entries[1])
  /\ ClockNotMonotonic(ver.org)
  /\ ver.result[1].valid

(***************************************************************************)
(* verify_entry on an unknown id (SpecRoundTrip).                          *)
(***************************************************************************)
\* verify_entry is called on its own and returns.
VerifyEntryReturns == IsNone(ve) /\ ~IsNone(ve')

SuccessfulAppends(org) ==
  {c \in Callers : pc[c] = "returned" /\ loc[c].doc[1].orgId = org}

\* C29: on a quiescent, untampered ledger get_audit_summary(tenant) returns
\* totalEntries = lastSequence = the number of log_event calls for the
\* tenant that succeeded (0 when none), checkpointCount = the number of the
\* tenant's stored checkpoints, chainIntegrity.verified = true and
\* chainIntegrity.issues = 0.
C29_SummaryMatchesLedger ==
  (~IsNone(summary) /\ summary[1].pc = "done") =>
    LET r == summary[1].result[1]
        org == summary[1].org
    IN /\ r.totalEntries = Cardinality(SuccessfulAppends(org))
       /\ r.lastSequence = Cardinality(SuccessfulAppends(org))
       /\ r.checkpointCount = Cardinality({k \in checkpoints : k.orgId = org})
       /\ r.chainIntegrity.verified
       /\ r.chainIntegrity.issues = 0

(***************************************************************************)
(* The frame of the operations and the cached key (SpecOperations).        *)
(***************************************************************************)
\* A step of verify_entry, verify_chain, export_for_archive or
\* get_audit_summary.
ReaderStep ==
  ve' # ve \/ ver' # ver \/ export' # export \/ summary' # summary

\* C26: no step of any operation changes or removes a stored entry or
\* checkpoint.  An entry is added only by the insert of a log_event call,
\* which adds the one document that call built; a checkpoint is added only
\* by the checkpoint insert of a call whose entry is already stored, after
\* which the call returns; so a call that returns has added exactly one
\* entry and at most one checkpoint.  The steps of verify_entry,
\* verify_chain, export_for_archive and get_audit_summary leave both
\* collections as they are.
C26_AppendOnlyReadOnly ==
  [][/\ audit_logs \subseteq audit_logs'
     /\ checkpoints \subseteq checkpoints'
     /\ audit_logs' # audit_logs =>
          /\ checkpoints' = checkpoints
          /\ \E c \in Callers :
               /\ pc[c] = "insert"
               /\ pc'[c] \in {"returned", "cp_read_last"}
               /\ loc[c].doc[1] \notin audit_logs
               /\ audit_logs' = audit_logs \cup {loc[c].doc[1]}
     /\ checkpoints' # checkpoints =>
          /\ audit_logs' = audit_logs
          /\ \E c \in Callers :
               /\ pc[c] = "cp_insert"
               /\ pc'[c] = "returned"
               /\ loc[c].doc[1] \in audit_logs
               /\ Cardinality(checkpoints') = Cardinality(checkpoints) + 1
               /\ checkpoints' = checkpoints \cup {loc[c].cp[1]}
     /\ \A c \in Callers :
          (pc[c] # "returned" /\ pc'[c] = "returned")
            => loc'[c].doc[1] \in audit_logs'
     /\ ReaderStep =>
          audit_logs' = audit_logs /\ checkpoints' = checkpoints]_vars

\* Two log_event calls have returned, the second after storing a
\* checkpoint, and get_audit_summary, verify_chain inside it, has run to
\* its end on that ledger.
C26_Witness ==
  /\ \A c \in Callers : pc[c] = "returned"
  /\ Cardinality(audit_logs) = 2
  /\ Cardinality(checkpoints) = 1
  /\ ~IsNone(summary)
  /\ summary[1].pc = "done"
  /\ summary[1].result[1].checkpointCount = 1
  /\ summary[1].result[1].chainIntegrity.sampledEntries = 2

\* The key a signature was computed with.
KeyOf(signature) == signature[2]

\* C30: the signing key is resolved once and cached.  After the first
\* successful lookup no step asks the secret provider again or replaces the
\* cached key, whatever the provider holds by then; every signature of a
\* stored or pending entry, of a checkpoint and of an export package was
\* computed with the cached key; and verification keeps recomputing with
\* it, so untampered entries stay valid after a rotation.
C30_KeyResolvedOnce ==
  /\ [](/\ key_lookups <= 1
        /\ key_lookups = 1 <=> ~IsNone(signing_key)
        /\ IsNone(signing_key) => audit_logs = {} /\ checkpoints = {}
        /\ ~IsNone(signing_key) =>
             /\ \A d \in audit_logs : KeyOf(d.signature) = signing_key[1]
             /\ \A k \in checkpoints : KeyOf(k.signature) = signing_key[1]
             /\ \A c \in Callers :
                  /\ ~IsNone(loc[c].doc) =>
                       KeyOf(loc[c].doc[1].signature) = signing_key[1]
                  /\ ~IsNone(loc[c].cp) =>
                       KeyOf(loc[c].cp[1].signature) = signing_key[1]
             /\ (~IsNone(export) /\ export[1].pc = "done") =>
                  KeyOf(export[1].result[1].exportSignature) = signing_key[1]
        /\ (~IsNone(ve) /\ ve[1].result.error # Some("Entry not found"))
             => ve[1].result.valid
        /\ ver.pc = "done" => ver.result[1].valid)
  /\ [][~IsNone(signing_key) =>
          /\ signing_key' = signing_key
          /\ key_lookups' = key_lookups
          /\ \A c \in Callers :
               (pc[c] # "failed" /\ pc'[c] = "failed")
                 => loc'[c].err # "SecretsValidationError"]_vars

\* The provider's key was rotated after the logger had cached the first
\* key; since then the logger has stored two entries and a checkpoint and
\* verified a chain, all with one lookup.
C30_Witness ==
  /\ ~IsNone(signing_key)
  /\ _secrets # signing_key[1]
  /\ key_lookups = 1
  /\ Cardinality(audit_logs) >= 2
  /\ checkpoints # {}
  /\ ver.pc = "done" /\ Len(ver.entries) >= 2 /\ ver.result[1].valid

(***************************************************************************)
(* backend_v2: the chain of AuditLogger.log (SpecV2).                      *)
(***************************************************************************)
\* The committed logs of an organization.
V2Logs(org_id) == {r \in AuditLog : r.org_id = org_id}

\* C31: when every log call has completed, an organization's logs ordered
\* by timestamp form a chain: the first has prev_hash = 64 zeros and every
\* later one has prev_hash = the signature of the log just before it, also
\* when the calls came from sessions whose query and commit interleave.
C31_V2ChainByTimestamp ==
  (\A s \in Sessions : sessions[s].pc = "idle") =>
    \A org_id \in Orgs :
      \A r \in V2Logs(org_id) :
        LET earlier == {q \in V2Logs(org_id) : q.timestamp < r.timestamp}
        IN IF earlier = {}
           THEN r.prev_hash = ZeroHash
           ELSE \A q \in earlier :
                  (\A o \in earlier : o.timestamp <= q.timestamp)
                    => r.prev_hash = q.signature

(***************************************************************************)
(* audit.py: the chain of AuditLogger.log_event (SpecLegacy).              *)
(***************************************************************************)
\* verify_chain returns, called when no log_event call was running and with
\* a limit that covers the logs of the tenant.
LegacyVerifiedWhenQuiet ==
  /\ IsNone(chain_report)
  /\ ~IsNone(chain_report')
  /\ \A c \in Callers : log_calls[c].pc = "idle"
  /\ chain_report'[1].limit >=
       Cardinality({d \in db_audit_logs : d.orgId = chain_report'[1].orgId})

\* C34: after any interleaving of log_event calls of audit.py, untampered,
\* verify_chain with limit >= the number of logs returns isValid = true;
\* no two logs of a tenant chain to the same predecessor; and no log is
\* ordered, by (timestamp, _id), ahead of the log it chained to.
C34_LegacyChainValid ==
  /\ [][LegacyVerifiedWhenQuiet => chain_report'[1].isValid]_vars
  /\ [](\A d, e \in db_audit_logs :
          (d.orgId = e.orgId /\ d # e) => d.prevHash # e.prevHash)
  /\ [](\A d, p \in db_audit_logs :
          (d.orgId = p.orgId /\ d.prevHash = p.eventHash)
            => LegacyBefore(p, d))


(***************************************************************************)
(* canonical_json over logical content.                                    *)
(***************************************************************************)
\* The key-to-value content of a dict: what it maps each of its keys to,
\* a nested dict taken by its content as well.
ContentOfValue(v) ==
  IF Len(v) = 2 THEN <<"dict", {v[2][j] : j \in 1..Len(v[2])}>> ELSE v
Content(m) == {<<m[i][1], ContentOfValue(m[i][2])>> : i \in 1..Len(m)}

ContentTable == [m \in PyMaps |-> Content(m)]
JsonTable == [m \in PyMaps |-> canonical_json(DumpItems(m))]

\* The dict canonical_json was called on serialises like exactly the dicts
\* of the same content.
SameContentSameJson ==
  json_call # None =>
    \A m \in PyMaps :
      ContentTable[m] = ContentTable[json_call[1].data]
        <=> JsonTable[m] = json_call[1].json

\* The keys of entry_data in the order canonical_json writes them.
ContentKeys ==
  << "action", "actor", "details", "entity", "entityId", "id", "ipAddress",
     "orgId", "prevHash", "requestId", "sequence", "timestamp", "userAgent" >>

\* The members of the JSON object log_event hashed for the entry it built.
HashedItems(c) == loc[c].doc[1].entryHash[2][2]
HashedValue(c, key) ==
  LET items == HashedItems(c)
  IN items[CHOOSE i \in 1..Len(items) : items[i][1] = key][2]

\* The entry log_event built has the 13 content keys, and the optional
\* arguments entity_id, request_id, ip_address and user_agent are written
\* as given, null when omitted.
HashedKeysAndOptionals(c) ==
  LET ev == loc[c].ev[1] IN
  /\ [i \in 1..Len(HashedItems(c)) |-> HashedItems(c)[i][1]] = ContentKeys
  /\ HashedValue(c, "entityId") = JOpt(ev.entity_id)
  /\ HashedValue(c, "requestId") = JOpt(ev.request_id)
  /\ HashedValue(c, "ipAddress") = JOpt(ev.ip_address)
  /\ HashedValue(c, "userAgent") = JOpt(ev.user_agent)

\* C32 as stated: canonical_json serialises two dicts identically exactly
\* when they have the same key-to-value content (whatever the insertion
\* order, also of nested dicts; a key with value None is not an omitted
\* key), and log_event hashes the 13 content keys with every omitted
\* optional argument, details included, written as null.
C32_OmittedArgumentsNull ==
  /\ SameContentSameJson
  /\ pc["view"] = "insert" =>
       /\ HashedKeysAndOptionals("view")
       /\ IsNone(loc["view"].ev[1].details) =>
            HashedValue("view", "details") = JNull

\* C32, amended: as above, but omitted details are hashed as the empty
\* object (details or {}, line 105), like details given as an empty dict;
\* details that are given are hashed as given.
C32_CanonicalJsonDeterministic ==
  /\ SameContentSameJson
  /\ pc["view"] = "insert" =>
       /\ HashedKeysAndOptionals("view")
       /\ HashedValue("view", "details") =
            JDict(DetailsOrEmpty(loc["view"].ev[1].details))
       /\ IsNone(loc["view"].ev[1].details) =>
            HashedValue("view", "details") = canonical_json(<<>>)

\* canonical_json was called on a dict whose keys were inserted out of
\* order, one of them with value None and one with a nested dict also out
\* of order, and log_event built an entry from a call that omitted
\* entity_id and details.
C32_Witness ==
  /\ json_call # None
  /\ json_call[1].data =
       << <<"entity", None>>,
          <<"actor", <<"dict", << <<"role", "b">>, <<"name", "a">> >> >> >> >>
  /\ pc["view"] = "insert"
  /\ IsNone(loc["view"].ev[1].details)
  /\ IsNone(loc["view"].ev[1].entity_id)


(***************************************************************************)
(* Failed appends.                                                         *)
(***************************************************************************)
\* The log_event call of c ends with an error in this step.
EndsWithError(c) == pc[c] \in InFlight /\ pc'[c] = "failed"

\* The entry the call of c has built, if it has got that far, is stored.
EntryOfCallStored(c) ==
  loc[c].doc # None /\ loc[c].doc[1] \in audit_logs'

\* C33: every log_event call that ends with an error has added no entry to
\* the ledger, also when the error arises in the checkpoint build that the
\* call itself triggered.
C33_FailedAppendAddsNothing ==
  [][\A c \in Callers : EndsWithError(c) => ~EntryOfCallStored(c)]_vars


(***************************************************************************)
(* Lists of different length with the same Merkle root.                    *)
(***************************************************************************)
\* The list with one more copy of its last hash.
LastRepeated(hashes) == Append(hashes, hashes[Len(hashes)])

\* C36: for every list of hashes of odd length >= 3, the root
\* _compute_merkle_root returned for it is the root of the list followed
\* by one more copy of its last hash: two lists of different length have
\* the same root, which therefore does not determine the list.
C36_OddListSharesRootWithPadded ==
  (/\ ~IsNone(merkle)
   /\ merkle[1].roots # <<>>
   /\ Len(merkle[1].leaves) >= 3
   /\ Len(merkle[1].leaves) % 2 = 1)
  => LET longer == LastRepeated(merkle[1].leaves) IN
     /\ longer # merkle[1].leaves
     /\ Len(longer) = Len(merkle[1].leaves) + 1
     /\ merkle[1].roots[1] = _compute_merkle_root(longer)

\* The root of a list of three different hashes has been computed.
C36_Witness ==
  /\ ~IsNone(merkle)
  /\ merkle[1].roots # <<>>
  /\ Len(merkle[1].leaves) = 3
  /\ \A i, j \in 1..3 : merkle[1].leaves[i] = merkle[1].leaves[j] => i = j


(***************************************************************************)
(* verify_chain and the entries beyond the ones it fetched (SpecPrefix).   *)
(***************************************************************************)
\* The finished verify_chain call examined the min(limit, N) entries of
\* the tenant with the lowest sequences, and every issue it reports is
\* about one of them.
ExaminedPrefixOnly ==
  ver.pc = "done" =>
    /\ ver.entries = PrefixOf(audit_logs, ver.org, ver.limit)
    /\ ver.result[1].totalVerified = Len(ver.entries)
    /\ \A k \in 1..Len(ver.result[1].issues) :
         \E i \in 1..Len(ver.entries) :
           ver.result[1].issues[k].sequence = ver.entries[i].sequence

\* The verify_chain call made again after entries beyond the fetched ones
\* were rewritten has returned what the call before had returned.
SameReportAsBefore ==
  (/\ ~IsNone(previous) /\ previous[1].rewritten = "entries"
   /\ ver.pc = "done")
  => ver.result = previous[1].ver.result

\* C35: verify_chain(tenant, limit) examines only the min(limit, N) entries
\* of the tenant with the lowest sequences: its issues are about these
\* entries only, and its report is the same for two ledgers that agree on
\* them, whatever the entries beyond them are.
C35_ReportDependsOnPrefixOnly ==
  ExaminedPrefixOnly /\ SameReportAsBefore


(***************************************************************************)
(* Verification and the checkpoints (SpecRewrittenCheckpoints).            *)
(***************************************************************************)
\* chainIntegrity of what a get_audit_summary call returned.
ChainIntegrityOf(call) == call[1].result[1].chainIntegrity

\* C37: verification never reads a checkpoint back: verify_entry,
\* verify_chain and the chainIntegrity of get_audit_summary, called again
\* with the same arguments after audit_checkpoints was rewritten (emptied,
\* a checkpoint deleted, forged, or altered in merkleRoot, range, entry
\* count or signature) while the entries stayed as they were, return what
\* they returned before.
C37_VerificationIgnoresCheckpoints ==
  (~IsNone(previous) /\ previous[1].rewritten = "checkpoints") =>
    /\ (~IsNone(ve) /\ ~IsNone(previous[1].ve)) =>
         /\ ve[1].entry_id = previous[1].ve[1].entry_id
         /\ ve[1].result = previous[1].ve[1].result
    /\ (ver.pc = "done" /\ previous[1].ver.pc = "done") =>
         /\ ver.org = previous[1].ver.org /\ ver.limit = previous[1].ver.limit
         /\ ver.result = previous[1].ver.result
    /\ (/\ ~IsNone(summary) /\ summary[1].pc = "done"
        /\ ~IsNone(previous[1].summary) /\ previous[1].summary[1].pc = "done") =>
         ChainIntegrityOf(summary) = ChainIntegrityOf(previous[1].summary)

\* get_audit_summary has returned a second time for a tenant of two
\* entries whose checkpoint is gone from storage since the first call.
C37_Witness ==
  /\ ~IsNone(previous) /\ previous[1].rewritten = "checkpoints"
  /\ ~IsNone(summary) /\ summary[1].pc = "done"
  /\ ~IsNone(previous[1].summary) /\ previous[1].summary[1].pc = "done"
  /\ Cardinality(OrgEntries(summary[1].org)) = 2
  /\ previous[1].summary[1].result[1].checkpointCount = 1
  /\ summary[1].result[1].checkpointCount = 0
  /\ ChainIntegrityOf(summary).sampledEntries = 2

=============================================================================
